---- MODULE Spec2Model ----
(***************************************************************************)
(* Model of the statistics tool in src/assets/js/script.js (the current    *)
(* analyzer, lines 291-980), its results page src/assets/js/results.js and *)
(* the first revision of the calculator kept in src/unnamed/part_000.      *)
(*                                                                         *)
(* Numbers.  A JavaScript Number is modelled by the real number it stands  *)
(* for: a finite value is an exact fraction, and NaN, Infinity are tags.   *)
(* Samples are small integers, for which the sums and differences the code *)
(* takes are exact in IEEE doubles as well; Math.sqrt and toFixed are      *)
(* modelled by the exactly rounded decimal they print.  The section        *)
(* "Double precision" models the same functions with the rounding of       *)
(* binary64, for decimal inputs such as 0.1 (SpecDouble).                  *)
(* A JavaScript String is a sequence of one-character strings where the    *)
(* code looks inside it (the text of a textarea), and a tagged record      *)
(* where the code only produces or re-parses it (the text of toFixed).     *)
(***************************************************************************)
EXTENDS Integers, Sequences, FiniteSets, TLC

VARIABLES
    \* one dataset row of the form (script.js 575-614, 857-880)
    token,          \* textarea.value, a sequence of characters
    validationMsg,  \* validationDiv.textContent of the row
    borderColor,    \* textarea.style.borderColor of the row
    lastParse,      \* what validateDataset's call of parseAndValidateFieldValues returned
    rowStage,       \* "editing" until Run Analysis is clicked, then "clicked"
    allValid,       \* the click handler's allValid flag
    rowDatasets,    \* what the click handler pushed to fullDataArrays for the row
    \* one analysis run (script.js 902-972) and its results page (results.js)
    datasets,       \* [label, values]: what the click handler collected
    selectedOptions,\* the checked analysis options, in document order
    stage,          \* "clicked" -> "opened" -> "rendered"
    errorDisplay,   \* errorDisplay.textContent
    means, populationSDs, sampleSDs, noOfItems,
    analysisResults,\* the object performAnalyses returns
    payload,        \* resultsPayload.analyses
    page,           \* what results.js derives from the payload
    legacy,         \* what compareData of part_000 displays
    \* one dataset computed in double precision (script.js 296-335, 902-907)
    typed,          \* the numeric pieces typed into the textarea, as decimal texts
    dstage,         \* "typing" until Run Analysis is clicked, then "computed"
    dmean,          \* calculateMean of the parsed pieces
    dpopulationSD,  \* calculateSD(values, "population")
    dsampleSD,      \* calculateSD(values, "sample")
    \* one call of calculateTwoWayAnova (script.js 399-501, 821-834)
    twDatasets,     \* labeledDatasets: [label, values] of each dataset
    twStage,        \* "clicked" until the two-way case runs, then "twoWay"
    twResult,       \* what calculateTwoWayAnova returned
    twReported,     \* results.anovaTwoWay
    twDisplay,      \* errorDisplay.textContent after the case
    twLevels,       \* factorALevels and factorBLevels after the loop over the labels
    \* one call of calculateOneWayAnova (script.js 364-396)
    owGroups,       \* dataset: the data arrays of the groups
    owStage,        \* "called" until the function returns, then "returned"
    owResult,       \* what the function returned
    \* the analyzer form (script.js 518-979)
    formRows,       \* the rows of datasetContainer, in document order
    datasetCount,   \* let datasetCount
    checkedOptions, \* the values of the checked boxes of the options grid
    submitting,     \* the submit button reads "Running Analysis..." with its loader
    timers,         \* the callbacks of setTimeout that have not run, oldest first
    openedPages,    \* the results pages opened by window.open, oldest first
    filePreview,    \* what the file preview shows
    passedClicks    \* history: the rows and options read by each click that set a timer

rowVars == <<token, validationMsg, borderColor, lastParse, rowStage, allValid, rowDatasets>>
runVars == <<datasets, selectedOptions, stage, errorDisplay, means, populationSDs,
             sampleSDs, noOfItems, analysisResults, payload, page, legacy>>
doubleVars == <<typed, dstage, dmean, dpopulationSD, dsampleSD>>
twoWayVars == <<twDatasets, twStage, twResult, twReported, twDisplay, twLevels>>
oneWayVars == <<owGroups, owStage, owResult>>
formVars == <<formRows, datasetCount, checkedOptions, submitting, timers, openedPages,
              filePreview, passedClicks>>
vars == <<rowVars, runVars, doubleVars, twoWayVars, oneWayVars, formVars>>

----------------------------------------------------------------------------
(* Bounds of the model *)

\* longest textarea text explored
MaxTokenLen == 7
\* samples hold the integers 0..MaxVal
MaxVal == 1
\* total number of observations over all datasets of a run
MaxTotal == 9
MaxPieces == 4
MaxStart == 7
MaxRun == 5
MaxCells == 5
MaxCellSize == 2
MaxOptions == 3
\* most rows of the form, and the largest datasetCount
MaxRows == 2
MaxCount == 4
\* most clicks on Run Analysis that pass validation
MaxClicks == 2

----------------------------------------------------------------------------
(* Arithmetic on natural numbers too large for a machine integer: a number  *)
(* is the sequence of its base-10000 digits, least significant first.       *)

RECURSIVE BigOf(_)
BigOf(n) == IF n = 0 THEN <<>> ELSE <<n % 10000>> \o BigOf(n \div 10000)

RECURSIVE BigAddC(_, _, _)
BigAddC(a, b, c) ==
    IF a = <<>> /\ b = <<>> THEN (IF c = 0 THEN <<>> ELSE <<c>>)
    ELSE LET x == IF a = <<>> THEN 0 ELSE Head(a)
             y == IF b = <<>> THEN 0 ELSE Head(b)
             s == x + y + c
         IN  <<s % 10000>> \o BigAddC(IF a = <<>> THEN <<>> ELSE Tail(a),
                                      IF b = <<>> THEN <<>> ELSE Tail(b),
                                      s \div 10000)

BigAdd(a, b) == BigAddC(a, b, 0)

RECURSIVE BigMulDigit(_, _, _)
BigMulDigit(a, d, c) ==
    IF a = <<>> THEN BigOf(c)
    ELSE LET s == Head(a) * d + c
         IN  <<s % 10000>> \o BigMulDigit(Tail(a), d, s \div 10000)

RECURSIVE BigTrim(_)
BigTrim(a) == IF a # <<>> /\ a[Len(a)] = 0 THEN BigTrim(SubSeq(a, 1, Len(a) - 1)) ELSE a

RECURSIVE BigMul(_, _)
BigMul(a, b) ==
    IF a = <<>> \/ b = <<>> THEN <<>>
    ELSE BigTrim(BigAdd(BigMulDigit(b, Head(a), 0), <<0>> \o BigMul(Tail(a), b)))

RECURSIVE BigLeqFrom(_, _, _)
BigLeqFrom(a, b, i) ==
    IF i = 0 THEN TRUE
    ELSE IF a[i] # b[i] THEN a[i] < b[i]
    ELSE BigLeqFrom(a, b, i - 1)

BigLeq(a, b) ==
    IF Len(a) # Len(b) THEN Len(a) < Len(b) ELSE BigLeqFrom(a, b, Len(a))

\* the largest m in lo..hi with m * m * den <= num (lo satisfies it)
RECURSIVE BigSqrtSearch(_, _, _, _)
BigSqrtSearch(num, den, lo, hi) ==
    IF lo = hi THEN lo
    ELSE LET mid == (lo + hi + 1) \div 2
         IN  IF BigLeq(BigMul(BigMul(BigOf(mid), BigOf(mid)), den), num)
             THEN BigSqrtSearch(num, den, mid, hi)
             ELSE BigSqrtSearch(num, den, lo, mid - 1)

\* floor(sqrt(a)) for a natural number a that fits a machine integer
RECURSIVE IntSqrtSearch(_, _, _)
IntSqrtSearch(a, lo, hi) ==
    IF lo = hi THEN lo
    ELSE LET mid == (lo + hi + 1) \div 2
         IN  IF mid * mid <= a THEN IntSqrtSearch(a, mid, hi)
             ELSE IntSqrtSearch(a, lo, mid - 1)

IntSqrtFloor(a) == IntSqrtSearch(a, 0, IF a < 46340 THEN a ELSE 46340)

RECURSIVE Pow100(_)
Pow100(k) == IF k <= 0 THEN 1 ELSE 100 * Pow100(k - 1)

\* floor(sqrt(num / den)) for big num >= 0 and big den > 0: a quotient of
\* numbers of j and k digits is below 10000^(j - k + 1)
BigSqrtFloor(num, den) ==
    BigSqrtSearch(num, den, 0, Pow100(Len(num) - Len(den) + 1))

----------------------------------------------------------------------------
(* JavaScript Numbers.  Fin(n, d) is the finite value n/d in lowest terms;   *)
(* Root(c, n, d) is c * sqrt(n/d), the value of an expression that holds a   *)
(* Math.sqrt, kept exact until toFixed prints it; NaN, PosInf and NegInf are *)
(* the special values.                                                      *)

Abs(x) == IF x < 0 THEN -x ELSE x
Sign(x) == IF x < 0 THEN -1 ELSE IF x = 0 THEN 0 ELSE 1

RECURSIVE GCD(_, _)
GCD(a, b) == IF b = 0 THEN a ELSE GCD(b, a % b)

RECURSIVE Pow10(_)
Pow10(k) == IF k = 0 THEN 1 ELSE 10 * Pow10(k - 1)

NaN == [k |-> "NaN"]
PosInf == [k |-> "Infinity"]
NegInf == [k |-> "-Infinity"]

Fin(n, d) ==
    LET g == GCD(Abs(n), Abs(d))
    IN  [k |-> "num", n |-> Sign(d) * (n \div g), d |-> Abs(d) \div g]

Int2Num(i) == Fin(i, 1)
IsFin(x) == x.k = "num"

\* x + y
NumAdd(x, y) ==
    IF IsFin(x) /\ IsFin(y)
    THEN LET l == (x.d \div GCD(x.d, y.d)) * y.d
         IN  Fin(x.n * (l \div x.d) + y.n * (l \div y.d), l)
    ELSE IF x.k = "NaN" \/ y.k = "NaN" THEN NaN
    ELSE IF IsFin(x) THEN y
    ELSE IF IsFin(y) \/ x.k = y.k THEN x
    ELSE NaN

NumNeg(x) ==
    IF IsFin(x) THEN Fin(-x.n, x.d)
    ELSE IF x.k = "Infinity" THEN NegInf
    ELSE IF x.k = "-Infinity" THEN PosInf
    ELSE x

\* x - y
NumSub(x, y) == NumAdd(x, NumNeg(y))

\* the sign of a Number that is not NaN
NumSign(x) ==
    IF IsFin(x) THEN Sign(x.n) ELSE IF x.k = "Infinity" THEN 1 ELSE -1

\* x * y
NumMul(x, y) ==
    IF IsFin(x) /\ IsFin(y)
    THEN LET g1 == GCD(Abs(x.n), y.d)
             g2 == GCD(Abs(y.n), x.d)
         IN  Fin((x.n \div g1) * (y.n \div g2), (x.d \div g2) * (y.d \div g1))
    ELSE IF x.k = "NaN" \/ y.k = "NaN" THEN NaN
    ELSE IF NumSign(x) * NumSign(y) = 0 THEN NaN
    ELSE IF NumSign(x) * NumSign(y) > 0 THEN PosInf
    ELSE NegInf

\* x / y: a zero divisor gives NaN (0/0) or a signed Infinity
NumDiv(x, y) ==
    IF IsFin(x) /\ IsFin(y)
    THEN IF y.n = 0
         THEN (IF x.n = 0 THEN NaN ELSE IF x.n > 0 THEN PosInf ELSE NegInf)
         ELSE NumMul(x, Fin(y.d, y.n))
    ELSE IF x.k = "NaN" \/ y.k = "NaN" THEN NaN
    ELSE IF IsFin(x) THEN Fin(0, 1)
    ELSE IF ~IsFin(y) THEN NaN
    ELSE IF NumSign(x) * (IF y.n < 0 THEN -1 ELSE 1) > 0 THEN PosInf
    ELSE NegInf

\* Math.pow(x, 2)
Square(x) == NumMul(x, x)

\* c * sqrt(n / d) for a finite c and integers n >= 0, d > 0
Root(c, n, d) == [k |-> "root", c |-> c, n |-> n, d |-> d]

NumIsZero(x) ==
    \/ IsFin(x) /\ x.n = 0
    \/ x.k = "root" /\ (x.c.n = 0 \/ x.n = 0)

\* Math.sqrt(x)
MathSqrt(x) ==
    IF IsFin(x)
    THEN IF x.n < 0 THEN NaN ELSE Root(Int2Num(1), x.n, x.d)
    ELSE IF x.k = "Infinity" THEN PosInf
    ELSE NaN

\* x / r for a finite x and a root r # 0:  (x / c) * sqrt(d / n)
DivByRoot(x, r) == Root(NumDiv(x, r.c), r.d, r.n)

\* the largest machine integer
MaxInt == 2 * (2^30 - 1) + 1

\* floor(sqrt(f * f * cn * cn * n / (cd * cd * d))) for natural numbers
ScaledSqrtFloor(f, cn, cd, n, d) ==
    IF cn = 0 \/ n = 0 THEN 0
    ELSE IF /\ f * cn <= 46340 /\ n <= MaxInt \div (f * f * cn * cn)
            /\ cd <= 46340 /\ d <= MaxInt \div (cd * cd)
    THEN IntSqrtFloor((f * f * cn * cn * n) \div (cd * cd * d))
    ELSE BigSqrtFloor(BigMul(BigMul(BigOf(f * cn), BigOf(f * cn)), BigOf(n)),
                      BigMul(BigMul(BigOf(cd), BigOf(cd)), BigOf(d)))

----------------------------------------------------------------------------
(* JavaScript Strings the engine produces.  Fixed(p, v) is the text of       *)
(* Number.prototype.toFixed(p): the decimal v / 10^p written with p digits   *)
(* after the point; Str(t) is the literal text t.                            *)

Fixed(p, v) == [k |-> "fixed", p |-> p, v |-> v]
Str(t) == [k |-> "str", t |-> t]

\* x.toFixed(p): the decimal with p digits nearest to x, the larger one on a tie
ToFixed(x, p) ==
    IF IsFin(x)
    THEN Fixed(p, Sign(x.n) * ((Abs(x.n) \div x.d) * Pow10(p)
                               + (2 * (Abs(x.n) % x.d) * Pow10(p) + x.d) \div (2 * x.d)))
    ELSE IF x.k = "root"
    THEN LET m == ScaledSqrtFloor(2 * Pow10(p), Abs(x.c.n), x.c.d, x.n, x.d)
         IN  Fixed(p, Sign(x.c.n) * ((m + 1) \div 2))
    ELSE Str(x.k)

\* parseFloat(s) of such a string; a Number is first converted to its text
ParseFloat(s) ==
    IF s.k = "fixed" THEN Fin(s.v, Pow10(s.p))
    ELSE IF s.k = "str"
    THEN (IF s.t = "Infinity" THEN PosInf
          ELSE IF s.t = "-Infinity" THEN NegInf
          ELSE NaN)
    ELSE IF s.k \in {"undefined", "null"} THEN NaN
    ELSE s


----------------------------------------------------------------------------
(* Text of a textarea: a sequence of characters *)

\* the characters typed into a textarea in this model
Alphabet == {"1", "x", ",", " "}

IsDigit(c) == c \in {"0", "1", "2", "3", "4", "5", "6", "7", "8", "9"}

DigitVal(c) ==
    CASE c = "0" -> 0 [] c = "1" -> 1 [] c = "2" -> 2 [] c = "3" -> 3 [] c = "4" -> 4
      [] c = "5" -> 5 [] c = "6" -> 6 [] c = "7" -> 7 [] c = "8" -> 8 [] c = "9" -> 9

\* String.prototype.trim
RECURSIVE TrimStart(_)
TrimStart(s) == IF s # <<>> /\ Head(s) = " " THEN TrimStart(Tail(s)) ELSE s

RECURSIVE TrimEnd(_)
TrimEnd(s) ==
    IF s # <<>> /\ s[Len(s)] = " " THEN TrimEnd(SubSeq(s, 1, Len(s) - 1)) ELSE s

Trim(s) == TrimEnd(TrimStart(s))

\* s.split(","): the pieces between the commas, empty pieces included
RECURSIVE SplitFrom(_, _)
SplitFrom(s, piece) ==
    IF s = <<>> THEN <<piece>>
    ELSE IF Head(s) = "," THEN <<piece>> \o SplitFrom(Tail(s), <<>>)
    ELSE SplitFrom(Tail(s), Append(piece, Head(s)))

Split(s) == SplitFrom(s, <<>>)

\* the value of the longest prefix of digits of s, given the value read so far
RECURSIVE DigitsPrefix(_, _)
DigitsPrefix(s, acc) ==
    IF s # <<>> /\ IsDigit(Head(s)) THEN DigitsPrefix(Tail(s), 10 * acc + DigitVal(Head(s)))
    ELSE acc

\* parseFloat(text): leading blanks are skipped, the longest numeric prefix is
\* read and what follows it is ignored; NaN when no digit starts the text
parseFloatText(s) ==
    LET t == TrimStart(s)
    IN  IF t # <<>> /\ IsDigit(Head(t)) THEN Int2Num(DigitsPrefix(t, 0)) ELSE NaN

isNaN(v) == v.k = "NaN"

\* [f(x) : x in s] for a sequence s
SeqMap(f(_), s) == [i \in 1..Len(s) |-> f(s[i])]

----------------------------------------------------------------------------
(* NumericParser: parseAndValidateFieldValues and validateDataset *)

\* the least number of values of a dataset
MinSamples == 3

Null == [isNull |-> TRUE, arr |-> <<>>]
Arr(a) == [isNull |-> FALSE, arr |-> a]

parseTrimmed(v) == parseFloatText(Trim(v))
notNaN(v) == ~isNaN(v)

\* the parser with its threshold one too low
parseAndValidateFieldValuesLow(fieldValue) ==
    LET trimmed == Trim(fieldValue)
        rawValues == Split(trimmed)
        parsed == SelectSeq(SeqMap(parseTrimmed, rawValues), notNaN)
    IN  IF trimmed = <<>> THEN Null
        ELSE IF Len(parsed) >= MinSamples - 1 THEN Arr(parsed) ELSE Null

\* script.js 510-516, the parser the analyzer runs
parseAndValidateFieldValues(fieldValue) ==
    LET trimmed == Trim(fieldValue)
        rawValues == Split(trimmed)
        parsed == SelectSeq(SeqMap(parseTrimmed, rawValues), notNaN)
    IN  IF trimmed = <<>> THEN Null
        ELSE IF Len(parsed) >= MinSamples THEN Arr(parsed) ELSE Null

\* script.js 80-88, the parser of the earlier revision kept in the same file
parseAndValidateFieldValuesEarlier(fieldValue) ==
    LET rawValues == Split(fieldValue)
        parsed == SeqMap(parseTrimmed, rawValues)
    IN  IF Len(parsed) < MinSamples \/ \E i \in 1..Len(parsed) : isNaN(parsed[i])
        THEN Null
        ELSE Arr(parsed)

MsgEmpty == "Dataset cannot be empty."
MsgTooFew == "Please provide at least 3 valid numeric values, comma-separated."
ColorError == "#d64937"
ColorOk == "#e0e4e8"

NotCalled == [called |-> FALSE, result |-> Null]
Called(r) == [called |-> TRUE, result |-> r]

\* validateDataset without its test for an empty text
validateDatasetNoEmptyTest(text) ==
    LET value == Trim(text)
        parsed == parseAndValidateFieldValues(value)
    IN  IF parsed = Null
        THEN [valid |-> FALSE, msg |-> MsgTooFew, color |-> ColorError, parse |-> Called(parsed)]
        ELSE [valid |-> TRUE, msg |-> "", color |-> ColorOk, parse |-> Called(parsed)]

\* script.js 541-562: the verdict, the message and border it leaves, and the
\* result of the parser call it makes (none for an empty text)
validateDataset(text) ==
    LET value == Trim(text)
        parsed == parseAndValidateFieldValues(value)
    IN  IF value = <<>>
        THEN [valid |-> FALSE, msg |-> MsgEmpty, color |-> ColorError, parse |-> NotCalled]
        ELSE IF parsed = Null
        THEN [valid |-> FALSE, msg |-> MsgTooFew, color |-> ColorError, parse |-> Called(parsed)]
        ELSE [valid |-> TRUE, msg |-> "", color |-> ColorOk, parse |-> Called(parsed)]


----------------------------------------------------------------------------
(* One dataset row: typing into its textarea and clicking Run Analysis *)

RowInit ==
    /\ token = <<>>
    /\ validationMsg = ""
    /\ borderColor = ""
    /\ lastParse = NotCalled
    /\ rowStage = "editing"
    /\ allValid = TRUE
    /\ rowDatasets = <<>>

RunIdle ==
    /\ datasets = <<>>
    /\ selectedOptions = <<>>
    /\ stage = "idle"
    /\ errorDisplay = ""
    /\ means = <<>>
    /\ populationSDs = <<>>
    /\ sampleSDs = <<>>
    /\ noOfItems = <<>>
    /\ analysisResults = <<>>
    /\ payload = <<>>
    /\ page = <<>>
    /\ legacy = <<>>

DoubleIdle ==
    /\ typed = <<>>
    /\ dstage = "idle"
    /\ dmean = <<>>
    /\ dpopulationSD = <<>>
    /\ dsampleSD = <<>>

TwoWayIdle ==
    /\ twDatasets = <<>>
    /\ twStage = "idle"
    /\ twResult = <<>>
    /\ twReported = <<>>
    /\ twDisplay = Str("")
    /\ twLevels = <<>>

OneWayIdle ==
    /\ owGroups = <<>>
    /\ owStage = "idle"
    /\ owResult = <<>>

FormIdle ==
    /\ formRows = <<>>
    /\ datasetCount = 0
    /\ checkedOptions = {}
    /\ submitting = FALSE
    /\ timers = <<>>
    /\ openedPages = <<>>
    /\ filePreview = "idle"
    /\ passedClicks = <<>>

\* script.js 611: the input listener validates the new text
Validated(text) ==
    LET v == validateDataset(text)
    IN  /\ validationMsg' = v.msg
        /\ borderColor' = v.color
        /\ lastParse' = v.parse

\* a character is typed at the end of the textarea
InputChar ==
    /\ rowStage = "editing"
    /\ Len(token) < MaxTokenLen
    /\ \E c \in Alphabet :
          /\ token' = Append(token, c)
          /\ Validated(token')
    /\ UNCHANGED <<rowStage, allValid, rowDatasets, runVars, doubleVars, twoWayVars, oneWayVars, formVars>>

\* the last character is deleted
InputBackspace ==
    /\ rowStage = "editing"
    /\ token # <<>>
    /\ token' = SubSeq(token, 1, Len(token) - 1)
    /\ Validated(token')
    /\ UNCHANGED <<rowStage, allValid, rowDatasets, runVars, doubleVars, twoWayVars, oneWayVars, formVars>>

\* script.js 862-880: the click handler's step for the row
ClickRow ==
    /\ rowStage = "editing"
    /\ rowStage' = "clicked"
    /\ LET v == validateDataset(token)
           parsed == parseAndValidateFieldValues(token)
       IN  /\ validationMsg' = v.msg
           /\ borderColor' = v.color
           /\ IF ~v.valid
              THEN /\ allValid' = FALSE
                   /\ lastParse' = v.parse
                   /\ rowDatasets' = rowDatasets
              ELSE /\ allValid' = allValid
                   /\ lastParse' = Called(parsed)
                   /\ rowDatasets' = IF parsed # Null
                                     THEN Append(rowDatasets, parsed.arr)
                                     ELSE rowDatasets
    /\ UNCHANGED <<token, runVars, doubleVars, twoWayVars, oneWayVars, formVars>>

RowNext == InputChar \/ InputBackspace \/ ClickRow

InitParser == RowInit /\ RunIdle /\ DoubleIdle /\ TwoWayIdle /\ OneWayIdle /\ FormIdle

SpecParser == InitParser /\ [][RowNext]_vars


----------------------------------------------------------------------------
(* Claims about the parser, checked under SpecParser *)

\* the comma-separated pieces of a text, as the parser reads them
Pieces(text) == SeqMap(parseTrimmed, Split(Trim(text)))
HasNonNumericPiece(text) == \E i \in 1..Len(Pieces(text)) : isNaN(Pieces(text)[i])
NumericCount(text) == Cardinality({i \in 1..Len(Pieces(text)) : ~isNaN(Pieces(text)[i])})

\* validateDataset has run on the text of the textarea
RowValidated == borderColor # ""

\* C1: whenever the parser is given a text one of whose comma-separated pieces
\* is not a number, it returns null (it never returns the array of the other
\* pieces).
C1_RejectsNonNumeric ==
    (lastParse.called /\ HasNonNumericPiece(token)) => lastParse.result = Null

\* C2: whenever fewer than 3 numeric values remain of the text, the parser
\* returns null; an array it returns holds at least 3 numbers.
C2_TooFewIsNull ==
    lastParse.called =>
        /\ NumericCount(token) < 3 => lastParse.result = Null
        /\ lastParse.result # Null => Len(lastParse.result.arr) >= 3

C2_Witness ==
    /\ rowStage = "clicked"
    /\ lastParse.called
    /\ NumericCount(token) = 2
    /\ lastParse.result = Null

\* C3: an empty or blank text is reported with a message of its own, which is
\* not the message of a text with too few values, and the click handler
\* collects no dataset (not even an empty one) for it.
C3_EmptyDistinguished ==
    /\ (RowValidated /\ Trim(token) = <<>>) =>
          /\ validationMsg = MsgEmpty
          /\ borderColor = ColorError
    /\ (RowValidated /\ Trim(token) # <<>>) => validationMsg # MsgEmpty
    /\ (RowValidated /\ Trim(token) # <<>> /\ NumericCount(token) < 3) =>
          validationMsg = MsgTooFew
    /\ (rowStage = "clicked" /\ Trim(token) = <<>>) =>
          /\ allValid = FALSE
          /\ rowDatasets = <<>>

C3_Witness ==
    /\ rowStage = "clicked"
    /\ token # <<>>
    /\ Trim(token) = <<>>
    /\ validationMsg = MsgEmpty
    /\ rowDatasets = <<>>


----------------------------------------------------------------------------
(* DescriptiveStats: script.js 296-335 *)

Undefined == [k |-> "undefined"]

\* script.js 296-298: the values are added from the left, each through parseFloat
RECURSIVE summationFrom(_, _, _)
summationFrom(values, i, sum) ==
    IF i > Len(values) THEN sum
    ELSE summationFrom(values, i + 1, NumAdd(sum, ParseFloat(values[i])))

summation(values) == summationFrom(values, 1, Int2Num(0))

\* script.js 305-308
calculateMean(values) ==
    IF Len(values) = 0 THEN Int2Num(0)
    ELSE NumDiv(summation(values), Int2Num(Len(values)))

\* script.js 316-318
getSquareDifferences(data, mean) ==
    [i \in 1..Len(data) |-> Square(NumSub(ParseFloat(data[i]), mean))]

\* script.js 326-335: the standard deviation as the text of toFixed(3)
calculateSD(data, type) ==
    IF Len(data) = 0 THEN Fixed(3, 0)
    ELSE LET mean == calculateMean(data)
             squaredDiffs == getSquareDifferences(data, mean)
             sumSquaredDiff == summation(squaredDiffs)
             variance == IF type = "population"
                         THEN NumDiv(sumSquaredDiff, Int2Num(Len(data)))
                         ELSE NumDiv(sumSquaredDiff, Int2Num(Len(data) - 1))
         IN  ToFixed(MathSqrt(variance), 3)

\* x / y where y may be the value of a Math.sqrt
NumDivAny(x, y) ==
    IF y.k = "root" /\ ~NumIsZero(y) THEN (IF IsFin(x) THEN DivByRoot(x, y) ELSE NaN)
    ELSE IF y.k = "root" THEN NumDiv(x, Int2Num(0))
    ELSE NumDiv(x, y)

----------------------------------------------------------------------------
(* TwoSampleTTest: script.js 344-355 *)

\* the t-test with the size of the first group under both variances
calculateTtestSameN(tMeans, tNoOfItems, SDs) ==
    IF Len(tMeans) # 2 \/ Len(tNoOfItems) # 2 \/ Len(SDs) # 2 THEN Str("N/A")
    ELSE LET meanDiff == NumSub(tMeans[1], tMeans[2])
             pooledSD == MathSqrt(NumAdd(NumDiv(Square(SDs[1]), tNoOfItems[1]),
                                         NumDiv(Square(SDs[2]), tNoOfItems[1])))
         IN  IF NumIsZero(pooledSD) THEN Str("Infinity")
             ELSE ToFixed(NumDivAny(meanDiff, pooledSD), 3)

\* the t statistic of the first two groups whatever the number of groups
calculateTtestAnyArity(tMeans, tNoOfItems, SDs) ==
    IF Len(tMeans) < 2 \/ Len(tNoOfItems) < 2 \/ Len(SDs) < 2 THEN Str("N/A")
    ELSE LET meanDiff == NumSub(tMeans[1], tMeans[2])
             pooledSD == MathSqrt(NumAdd(NumDiv(Square(SDs[1]), tNoOfItems[1]),
                                         NumDiv(Square(SDs[2]), tNoOfItems[2])))
         IN  IF NumIsZero(pooledSD) THEN Str("Infinity")
             ELSE ToFixed(NumDivAny(meanDiff, pooledSD), 3)

\* script.js 344-355
calculateTtest(tMeans, tNoOfItems, SDs) ==
    IF Len(tMeans) # 2 \/ Len(tNoOfItems) # 2 \/ Len(SDs) # 2 THEN Str("N/A")
    ELSE LET meanDiff == NumSub(tMeans[1], tMeans[2])
             pooledSD == MathSqrt(NumAdd(NumDiv(Square(SDs[1]), tNoOfItems[1]),
                                         NumDiv(Square(SDs[2]), tNoOfItems[2])))
         IN  IF NumIsZero(pooledSD) THEN Str("Infinity")
             ELSE ToFixed(NumDivAny(meanDiff, pooledSD), 3)

----------------------------------------------------------------------------
(* OneWayAnova: script.js 364-396 *)

\* Array.prototype.flat of an array of arrays
RECURSIVE flat(_)
flat(arrays) == IF arrays = <<>> THEN <<>> ELSE Head(arrays) \o flat(Tail(arrays))

AnovaNA ==
    [F |-> Str("N/A"), ESSb |-> Undefined, ESSw |-> Undefined, MeanSSb |-> Undefined,
     MeanSSw |-> Undefined, DFb |-> Undefined, DFW |-> Undefined]

\* the analysis of variance with the two degrees of freedom exchanged
calculateOneWayAnovaSwappedDf(dataset, aMeans, aNoOfItems) ==
    IF Len(dataset) < 2 \/ Len(dataset) # Len(aMeans) \/ Len(dataset) # Len(aNoOfItems)
    THEN AnovaNA
    ELSE LET totalItems == summation(aNoOfItems)
             noOfGroups == Int2Num(Len(dataset))
             grandMean == calculateMean(aMeans)
             dfb == NumSub(totalItems, noOfGroups)
             dfw == NumSub(noOfGroups, Int2Num(1))
             ssb == [i \in 1..Len(dataset) |->
                        NumMul(aNoOfItems[i], Square(NumSub(aMeans[i], grandMean)))]
             ssw == [i \in 1..Len(dataset) |-> getSquareDifferences(dataset[i], aMeans[i])]
             essb == summation(ssb)
             essw == summation(flat(ssw))
             mssb == NumDiv(essb, dfb)
             mssw == NumDiv(essw, dfw)
             f == IF NumIsZero(mssw) THEN Str("Infinity") ELSE ToFixed(NumDiv(mssb, mssw), 2)
         IN  [F |-> f, ESSb |-> ToFixed(essb, 3), ESSw |-> ToFixed(essw, 3),
              MeanSSb |-> ToFixed(mssb, 3), MeanSSw |-> ToFixed(mssw, 3),
              DFb |-> dfb, DFW |-> dfw]

\* the analysis of variance without the test of mssw === 0
calculateOneWayAnovaNoSentinel(dataset, aMeans, aNoOfItems) ==
    IF Len(dataset) < 2 \/ Len(dataset) # Len(aMeans) \/ Len(dataset) # Len(aNoOfItems)
    THEN AnovaNA
    ELSE LET totalItems == summation(aNoOfItems)
             noOfGroups == Int2Num(Len(dataset))
             grandMean == calculateMean(aMeans)
             dfb == NumSub(noOfGroups, Int2Num(1))
             dfw == NumSub(totalItems, noOfGroups)
             ssb == [i \in 1..Len(dataset) |->
                        NumMul(aNoOfItems[i], Square(NumSub(aMeans[i], grandMean)))]
             ssw == [i \in 1..Len(dataset) |-> getSquareDifferences(dataset[i], aMeans[i])]
             essb == summation(ssb)
             essw == summation(flat(ssw))
             mssb == NumDiv(essb, dfb)
             mssw == NumDiv(essw, dfw)
             f == ToFixed(NumDiv(mssb, mssw), 2)
         IN  [F |-> f, ESSb |-> ToFixed(essb, 3), ESSw |-> ToFixed(essw, 3),
              MeanSSb |-> ToFixed(mssb, 3), MeanSSw |-> ToFixed(mssw, 3),
              DFb |-> dfb, DFW |-> dfw]

\* the analysis of variance without the test of the number of groups
calculateOneWayAnovaAnyArity(dataset, aMeans, aNoOfItems) ==
    IF Len(dataset) # Len(aMeans) \/ Len(dataset) # Len(aNoOfItems)
    THEN AnovaNA
    ELSE LET totalItems == summation(aNoOfItems)
             noOfGroups == Int2Num(Len(dataset))
             grandMean == calculateMean(aMeans)
             dfb == NumSub(noOfGroups, Int2Num(1))
             dfw == NumSub(totalItems, noOfGroups)
             ssb == [i \in 1..Len(dataset) |->
                        NumMul(aNoOfItems[i], Square(NumSub(aMeans[i], grandMean)))]
             ssw == [i \in 1..Len(dataset) |-> getSquareDifferences(dataset[i], aMeans[i])]
             essb == summation(ssb)
             essw == summation(flat(ssw))
             mssb == NumDiv(essb, dfb)
             mssw == NumDiv(essw, dfw)
             f == IF NumIsZero(mssw) THEN Str("Infinity") ELSE ToFixed(NumDiv(mssb, mssw), 2)
         IN  [F |-> f, ESSb |-> ToFixed(essb, 3), ESSw |-> ToFixed(essw, 3),
              MeanSSb |-> ToFixed(mssb, 3), MeanSSw |-> ToFixed(mssw, 3),
              DFb |-> dfb, DFW |-> dfw]

\* script.js 364-396
calculateOneWayAnova(dataset, aMeans, aNoOfItems) ==
    IF Len(dataset) < 2 \/ Len(dataset) # Len(aMeans) \/ Len(dataset) # Len(aNoOfItems)
    THEN AnovaNA
    ELSE LET totalItems == summation(aNoOfItems)
             noOfGroups == Int2Num(Len(dataset))
             grandMean == calculateMean(aMeans)
             dfb == NumSub(noOfGroups, Int2Num(1))
             dfw == NumSub(totalItems, noOfGroups)
             ssb == [i \in 1..Len(dataset) |->
                        NumMul(aNoOfItems[i], Square(NumSub(aMeans[i], grandMean)))]
             ssw == [i \in 1..Len(dataset) |-> getSquareDifferences(dataset[i], aMeans[i])]
             essb == summation(ssb)
             essw == summation(flat(ssw))
             mssb == NumDiv(essb, dfb)
             mssw == NumDiv(essw, dfw)
             f == IF NumIsZero(mssw) THEN Str("Infinity") ELSE ToFixed(NumDiv(mssb, mssw), 2)
         IN  [F |-> f, ESSb |-> ToFixed(essb, 3), ESSw |-> ToFixed(essw, 3),
              MeanSSb |-> ToFixed(mssb, 3), MeanSSw |-> ToFixed(mssw, 3),
              DFb |-> dfb, DFW |-> dfw]


----------------------------------------------------------------------------
(* TwoWayAnova: calculateTwoWayAnova, script.js 399-501.  A label is a     *)
(* sequence of characters.                                                 *)

\* the first i >= from with text[i] = "-" and a character after it, or 0
RECURSIVE firstDash(_, _)
firstDash(text, from) ==
    IF from >= Len(text) THEN 0
    ELSE IF text[from] = "-" THEN from
    ELSE firstDash(text, from + 1)

\* script.js 401, 407: text.match(/^(.+?)-(.+)$/), the shortest non-empty
\* a before a "-" that is followed by a non-empty b
matchLabelPattern(text) ==
    LET i == firstDash(text, 2)
    IN  IF i = 0 THEN [matched |-> FALSE]
        ELSE [matched |-> TRUE, a |-> SubSeq(text, 1, i - 1),
              b |-> SubSeq(text, i + 1, Len(text))]

\* Set.prototype.add, the set kept as the array of its members in the order
\* of insertion
addLevel(levels, x) ==
    IF \E j \in 1..Len(levels) : levels[j] = x THEN levels ELSE Append(levels, x)

\* the template `${a}-${b}`
keyOf(a, b) == a \o <<"-">> \o b

\* groupMap[key] = data
setKey(groupMap, key, data) ==
    [k \in (DOMAIN groupMap) \cup {key} |-> IF k = key THEN data ELSE groupMap[k]]

\* script.js 406-415, every label taken as matching
RECURSIVE parseLabelsLenientFrom(_, _, _, _)
parseLabelsLenientFrom(dataArrays, labeledDatasets, i, acc) ==
    IF i > Len(labeledDatasets) THEN acc
    ELSE LET text == Trim(labeledDatasets[i].label)
             match == IF matchLabelPattern(text).matched THEN matchLabelPattern(text)
                      ELSE [matched |-> TRUE, a |-> text, b |-> text]
         IN  parseLabelsLenientFrom(dataArrays, labeledDatasets, i + 1,
                 [malformed |-> FALSE,
                  A |-> addLevel(acc.A, match.a),
                  B |-> addLevel(acc.B, match.b),
                  groupMap |-> setKey(acc.groupMap, keyOf(match.a, match.b),
                                      dataArrays[i])])

\* script.js 406-415: the loop over the labels, from dataset i on
RECURSIVE parseLabelsFrom(_, _, _, _)
parseLabelsFrom(dataArrays, labeledDatasets, i, acc) ==
    IF i > Len(labeledDatasets) THEN acc
    ELSE LET match == matchLabelPattern(Trim(labeledDatasets[i].label))
         IN  IF ~match.matched THEN [acc EXCEPT !.malformed = TRUE]
             ELSE parseLabelsFrom(dataArrays, labeledDatasets, i + 1,
                      [malformed |-> FALSE,
                       A |-> addLevel(acc.A, match.a),
                       B |-> addLevel(acc.B, match.b),
                       groupMap |-> setKey(acc.groupMap, keyOf(match.a, match.b),
                                           dataArrays[i])])

\* script.js 402-415: factorALevels, factorBLevels and groupMap after the loop
parseLabels(dataArrays, labeledDatasets) ==
    parseLabelsFrom(dataArrays, labeledDatasets, 1,
                    [malformed |-> FALSE, A |-> <<>>, B |-> <<>>, groupMap |-> <<>>])

\* the keys of the combinations with the loops exchanged: the levels of A
\* running under each level of B
cellKeysColumnMajor(A, B) ==
    flat([j \in 1..Len(B) |-> [i \in 1..Len(A) |-> keyOf(A[i], B[j])]])

\* script.js 444-446: the keys of the combinations in the order of the loops,
\* the levels of B running under each level of A
cellKeys(A, B) == flat([i \in 1..Len(A) |-> [j \in 1..Len(B) |-> keyOf(A[i], B[j])]])

\* script.js 444-449: the first combination of the loops without data, or 0
RECURSIVE firstMissing(_, _, _)
firstMissing(keys, groupMap, i) ==
    IF i > Len(keys) THEN 0
    ELSE IF keys[i] \notin DOMAIN groupMap THEN i
    ELSE firstMissing(keys, groupMap, i + 1)

ErrLabelFormat ==
    "Two-Way ANOVA requires dataset labels in 'FactorA-FactorB' format (e.g., Control-DrugX)."
ErrLevels == "Two-Way ANOVA requires at least 2 levels for each factor."
ErrMissing == "Missing data for combination"

\* a result { error: message }; the message is its fixed text and, for missing
\* data, the combination `${a}-${b}` the template puts into it
TwoWayError(text, key) == [error |-> [k |-> "str", t |-> text, names |-> key]]

\* script.js 463-469 with the factor B.length left out of nA
mainEffectSSNoFactor(levelMeans, grandMean, nPerCell, others) ==
    summation([i \in 1..Len(levelMeans) |->
                  NumMul(Int2Num(nPerCell), Square(NumSub(levelMeans[i], grandMean)))])

\* script.js 463-474: SSA (and SSB) from the means of the levels; others is
\* the number of levels of the other factor
mainEffectSS(levelMeans, grandMean, nPerCell, others) ==
    summation([i \in 1..Len(levelMeans) |->
                  NumMul(Int2Num(nPerCell * others),
                         Square(NumSub(levelMeans[i], grandMean)))])

\* script.js 476-500: the degrees of freedom, the mean squares and the two F
twoWayF(SSA, SSB, SSE, dfA, dfB, dfError) ==
    LET MSA == NumDiv(SSA, Int2Num(dfA))
        MSB == NumDiv(SSB, Int2Num(dfB))
        MSE == NumDiv(SSE, Int2Num(dfError))
    IN  [error |-> Undefined,
         factorA_F |-> IF NumIsZero(MSE) THEN Str("Infinity")
                       ELSE ToFixed(NumDiv(MSA, MSE), 3),
         factorB_F |-> IF NumIsZero(MSE) THEN Str("Infinity")
                       ELSE ToFixed(NumDiv(MSB, MSE), 3)]

\* script.js 450-461: the mean of the data pushed for level i of A
rowMean(A, B, groupMap, i) ==
    calculateMean(flat([j \in 1..Len(B) |-> groupMap[keyOf(A[i], B[j])]]))

\* script.js 450-461: the mean of the data pushed for level j of B
colMean(A, B, groupMap, j) ==
    calculateMean(flat([i \in 1..Len(A) |-> groupMap[keyOf(A[i], B[j])]]))

\* script.js 455: totalN += data.length over the cells
totalNOf(groupMap, keys) == Len(flat([c \in 1..Len(keys) |-> groupMap[keys[c]]]))

\* script.js 481-488: the within-cell sum of squares
errorSS(groupMap, keys) ==
    summation([c \in 1..Len(keys) |->
        summation(getSquareDifferences(groupMap[keys[c]], calculateMean(groupMap[keys[c]])))])

\* script.js 423-500: the statistics once every combination has its data
twoWayStatistics(dataArrays, A, B, groupMap, keys) ==
    twoWayF(mainEffectSS([i \in 1..Len(A) |-> rowMean(A, B, groupMap, i)],
                         calculateMean(flat(dataArrays)), Len(dataArrays[1]), Len(B)),
            mainEffectSS([j \in 1..Len(B) |-> colMean(A, B, groupMap, j)],
                         calculateMean(flat(dataArrays)), Len(dataArrays[1]), Len(A)),
            errorSS(groupMap, keys),
            Len(A) - 1, Len(B) - 1, totalNOf(groupMap, keys) - Len(A) * Len(B))

\* script.js 444-457: the cell loop, gap being its first combination without data
twoWayCells(dataArrays, A, B, groupMap, keys, gap) ==
    IF gap # 0 THEN TwoWayError(ErrMissing, keys[gap])
    ELSE twoWayStatistics(dataArrays, A, B, groupMap, keys)

\* script.js 417-501: after the loop over the labels
twoWayLevels(dataArrays, parsed) ==
    IF parsed.malformed THEN TwoWayError(ErrLabelFormat, <<>>)
    ELSE IF Len(parsed.A) < 2 \/ Len(parsed.B) < 2 THEN TwoWayError(ErrLevels, <<>>)
    ELSE twoWayCells(dataArrays, parsed.A, parsed.B, parsed.groupMap,
                     cellKeys(parsed.A, parsed.B),
                     firstMissing(cellKeys(parsed.A, parsed.B), parsed.groupMap, 1))

\* script.js 399-501
calculateTwoWayAnova(dataArrays, labeledDatasets) ==
    twoWayLevels(dataArrays, parseLabels(dataArrays, labeledDatasets))

\* script.js 823-832: results.anovaTwoWay after the case
reportedTwoWay(twoWayResult) ==
    IF twoWayResult.error # Undefined THEN twoWayResult.error
    ELSE [factorA_F |-> twoWayResult.factorA_F, factorB_F |-> twoWayResult.factorB_F]

\* script.js 825, 833: errorDisplay.textContent after the case
displayTwoWay(twoWayResult) ==
    IF twoWayResult.error # Undefined THEN twoWayResult.error ELSE Str("")

\* the characters of a label or key as one text
RECURSIVE JoinChars(_)
JoinChars(chars) == IF chars = <<>> THEN "" ELSE Head(chars) \o JoinChars(Tail(chars))

\* script.js 825, 833: the text of errorDisplay after the case, the missing
\* combination joined to the fixed text of its message
errorTextTwoWay(twoWayResult) ==
    IF twoWayResult.error = Undefined THEN ""
    ELSE IF twoWayResult.error.names = <<>> THEN twoWayResult.error.t
    ELSE twoWayResult.error.t \o " " \o JoinChars(twoWayResult.error.names)

\* script.js 406-415: the two sets of levels after the loop over the labels
levelsOf(parsed) == [malformed |-> parsed.malformed, A |-> parsed.A, B |-> parsed.B]

----------------------------------------------------------------------------
(* performAnalyses: script.js 767-845 *)

\* the number of decimal digits of a natural number
RECURSIVE NumDigits(_)
NumDigits(n) == IF n < 10 THEN 1 ELSE 1 + NumDigits(n \div 10)

\* parseFloat(a + b) for two strings: the texts are joined, and parseFloat
\* reads the join up to the first character that cannot continue a number,
\* which for two decimals is the point of the second one
parseFloatConcat(a, b) ==
    IF a.k = "fixed"
    THEN IF b.k = "fixed" /\ b.v >= 0 /\ a.v >= 0
         THEN LET whole == b.v \div Pow10(b.p)
                  nd == NumDigits(whole)
              IN  Fin(a.v * Pow10(nd) + whole, Pow10(a.p + nd))
         ELSE ParseFloat(a)
    ELSE ParseFloat(a)

NoResults ==
    [mean |-> Undefined, sampleSDs |-> Undefined, populationSDs |-> Undefined,
     ttest |-> Undefined, anovaOneWay |-> Undefined, anovaTwoWay |-> Undefined]

toFixed3(m) == ToFixed(m, 3)

\* an array held in an entry of the results object
JsArray(items) == [k |-> "array", items |-> items]

\* script.js 797: the standard deviations handed to calculateTtest
ttestSDs(pSDs) == SeqMap(ParseFloat, pSDs)

\* script.js 807-818
anovaOneWayResult(anovaFull) ==
    [F |-> anovaFull.F, ssBetween |-> anovaFull.ESSb, ssWithin |-> anovaFull.ESSw,
     msBetween |-> anovaFull.MeanSSb, msWithin |-> anovaFull.MeanSSw,
     dfBetween |-> anovaFull.DFb, dfWithin |-> anovaFull.DFW,
     totalSS |-> ToFixed(parseFloatConcat(anovaFull.ESSb, anovaFull.ESSw), 3),
     totalDf |-> NumAdd(anovaFull.DFb, anovaFull.DFW)]

\* script.js 779-841: one turn of the loop over the selected options; acc holds
\* the results object and the text of errorDisplay
analysisStep(acc, option, fullDataArrays, pMeans, pSampleSDs, pPopulationSDs, pNoOfItems, pDatasets) ==
    CASE option = "mean" ->
           [acc EXCEPT !.results.mean = JsArray(SeqMap(toFixed3, pMeans))]
      [] option = "sample-std-dev" ->
           [acc EXCEPT !.results.sampleSDs = JsArray(SeqMap(ParseFloat, pSampleSDs))]
      [] option = "population-std-dev" ->
           [acc EXCEPT !.results.populationSDs = JsArray(SeqMap(ParseFloat, pPopulationSDs))]
      [] option = "t-test" ->
           IF Len(fullDataArrays) # 2
           THEN [acc EXCEPT !.results.ttest = Str("N/A (requires exactly 2 datasets)"),
                            !.error = "T-Test requires exactly 2 datasets."]
           ELSE [acc EXCEPT !.results.ttest =
                                calculateTtest(pMeans, pNoOfItems, ttestSDs(pPopulationSDs)),
                            !.error = ""]
      [] option = "anova-one-way" ->
           IF Len(fullDataArrays) < 2
           THEN [acc EXCEPT !.results.anovaOneWay = Str("N/A (requires 2+ datasets)"),
                            !.error = "One-Way ANOVA requires at least 2 datasets."]
           ELSE [acc EXCEPT !.results.anovaOneWay =
                                anovaOneWayResult(
                                    calculateOneWayAnova(fullDataArrays, pMeans, pNoOfItems)),
                            !.error = ""]
      [] option = "anova-two-way" ->
           [acc EXCEPT !.results.anovaTwoWay =
                           reportedTwoWay(calculateTwoWayAnova(fullDataArrays, pDatasets)),
                       !.error =
                           errorTextTwoWay(calculateTwoWayAnova(fullDataArrays, pDatasets))]
      [] OTHER -> acc

\* the loop over the options given up at the first analysis that leaves a
\* message
RECURSIVE analysesFromUntilFailure(_, _, _, _, _, _, _, _, _)
analysesFromUntilFailure(acc, i, options, fullDataArrays, pMeans, pSampleSDs, pPopulationSDs, pNoOfItems, pDatasets) ==
    IF i > Len(options) \/ acc.error # "" THEN acc
    ELSE analysesFromUntilFailure(
             analysisStep(acc, options[i], fullDataArrays, pMeans, pSampleSDs,
                          pPopulationSDs, pNoOfItems, pDatasets),
             i + 1, options, fullDataArrays, pMeans, pSampleSDs, pPopulationSDs, pNoOfItems,
             pDatasets)

RECURSIVE analysesFrom(_, _, _, _, _, _, _, _, _)
analysesFrom(acc, i, options, fullDataArrays, pMeans, pSampleSDs, pPopulationSDs, pNoOfItems, pDatasets) ==
    IF i > Len(options) THEN acc
    ELSE analysesFrom(
             analysisStep(acc, options[i], fullDataArrays, pMeans, pSampleSDs,
                          pPopulationSDs, pNoOfItems, pDatasets),
             i + 1, options, fullDataArrays, pMeans, pSampleSDs, pPopulationSDs, pNoOfItems,
             pDatasets)

\* script.js 767-845: the results object and the text left in errorDisplay,
\* error being its text before the call
performAnalyses(fullDataArrays, pMeans, pSampleSDs, pPopulationSDs, pNoOfItems, options, pDatasets, error) ==
    analysesFrom([results |-> NoResults, error |-> error], 1, options, fullDataArrays,
                 pMeans, pSampleSDs, pPopulationSDs, pNoOfItems, pDatasets)


----------------------------------------------------------------------------
(* The first revision of the calculator: src/unnamed/part_000 *)

\* part_000 41-44
calculateMeanLegacy(values) == NumDiv(summation(values), Int2Num(Len(values)))

\* part_000 47-68: the type is the checked stdDeviationType radio
calculateSDLegacy(data, type) ==
    LET mean == calculateMeanLegacy(data)
        squaredDifferences == getSquareDifferences(data, mean)
        sumSquaredDiff == summation(squaredDifferences)
        variance == IF type = "population"
                    THEN NumDiv(sumSquaredDiff, Int2Num(Len(data)))
                    ELSE NumSub(NumDiv(sumSquaredDiff, Int2Num(Len(data))), Int2Num(1))
    IN  ToFixed(MathSqrt(variance), 3)

\* part_000 71-76
calculateTtestLegacy(mean1, mean2, SD1, SD2, NoOfItems1, NoOfItems2) ==
    LET meanDifference == NumSub(mean1, mean2)
        g == MathSqrt(NumAdd(NumDiv(Square(ParseFloat(SD1)), NoOfItems1),
                             NumDiv(Square(ParseFloat(SD2)), NoOfItems2)))
    IN  ToFixed(NumDivAny(meanDifference, g), 3)

----------------------------------------------------------------------------
(* One analysis run: the timer callback of the click handler, script.js    *)
(* 902-972, and the results page it opens, results.js 1-161                *)

JNull == [k |-> "null"]

\* JSON.stringify followed by JSON.parse, of a Number: NaN and the infinities
\* are written as null
JsonNum(x) == IF IsFin(x) THEN x ELSE JNull

\* the text of a dataset's default label
LabelOf(i) == "Dataset " \o ToString(i)

\* the samples of n values from lo..MaxVal in nondecreasing order (every
\* statistic below is a symmetric function of the sample)
RECURSIVE SortedSamples(_, _)
SortedSamples(n, lo) ==
    IF n = 0 THEN {<<>>}
    ELSE UNION {{<<Int2Num(v)>> \o t : t \in SortedSamples(n - 1, v)} : v \in lo..MaxVal}

\* the lists of samples that passed validation, of at most budget values in all
RECURSIVE SampleLists(_)
SampleLists(budget) ==
    {<<>>} \cup
    UNION {{<<x>> \o r : x \in SortedSamples(n, 0), r \in SampleLists(budget - n)} :
              n \in MinSamples..budget}

\* script.js 874-877: what the click handler collects for the rows
collected(samples) == [i \in 1..Len(samples) |-> [label |-> LabelOf(i), values |-> samples[i]]]

\* the options checked in the runs of this section, in the order of the page
AllOptions == <<"mean", "sample-std-dev", "population-std-dev", "t-test", "anova-one-way">>

valuesOf(d) == d.values

\* script.js 862-900: the state the click handler leaves when every row is
\* valid and an option is checked; the timer is pending
RunInit ==
    /\ \E samples \in SampleLists(MaxTotal) \ {<<>>} : datasets = collected(samples)
    /\ selectedOptions = AllOptions
    /\ stage = "clicked"
    /\ errorDisplay = ""
    /\ means = <<>>
    /\ populationSDs = <<>>
    /\ sampleSDs = <<>>
    /\ noOfItems = <<>>
    /\ analysisResults = <<>>
    /\ payload = <<>>
    /\ page = <<>>
    /\ legacy = <<>>

RowIdle ==
    /\ token = <<>>
    /\ validationMsg = ""
    /\ borderColor = ""
    /\ lastParse = NotCalled
    /\ rowStage = "clicked"
    /\ allValid = TRUE
    /\ rowDatasets = <<>>

sdPopulation(d) == calculateSD(d.values, "population")
sdSample(d) == calculateSD(d.values, "sample")
meanOf(d) == calculateMean(d.values)
lengthOf(d) == Int2Num(Len(d.values))

\* script.js 924-930
payloadDataset(ds) ==
    [label |-> ds.label, values |-> ds.values, mean |-> ToFixed(calculateMean(ds.values), 3),
     stdDev |-> JsonNum(ParseFloat(calculateSD(ds.values, "sample"))),
     n |-> Len(ds.values)]

HasOption(options, o) == \E i \in 1..Len(options) : options[i] = o

\* script.js 939-963: resultsPayload.analyses
payloadAnalyses(options, ds, results) ==
    [tTest |-> IF HasOption(options, "t-test") /\ Len(ds) = 2
               THEN [t |-> results.ttest, comparison |-> <<ds[1].label, ds[2].label>>]
               ELSE Undefined,
     anovaOneWay |-> IF HasOption(options, "anova-one-way") /\ Len(ds) >= 2
                     THEN results.anovaOneWay
                     ELSE Undefined,
     anovaTwoWay |-> IF HasOption(options, "anova-two-way")
                        /\ "factorA_F" \in DOMAIN results.anovaTwoWay
                     THEN results.anovaTwoWay
                     ELSE Undefined]

\* script.js 902-972: the timer fires
RunAnalysis ==
    /\ stage = "clicked"
    /\ means' = SeqMap(meanOf, datasets)
    /\ populationSDs' = SeqMap(sdPopulation, datasets)
    /\ sampleSDs' = SeqMap(sdSample, datasets)
    /\ noOfItems' = SeqMap(lengthOf, datasets)
    /\ LET out == performAnalyses(SeqMap(valuesOf, datasets), means', sampleSDs',
                                  populationSDs', noOfItems', selectedOptions, datasets,
                                  errorDisplay)
       IN  /\ analysisResults' = out.results
           /\ errorDisplay' = out.error
           /\ payload' = [datasetCount |-> Len(datasets),
                          datasets |-> SeqMap(payloadDataset, datasets),
                          analyses |-> payloadAnalyses(selectedOptions, datasets, out.results)]
    /\ stage' = "opened"
    /\ UNCHANGED <<datasets, selectedOptions, page, legacy, rowVars, doubleVars, twoWayVars, oneWayVars, formVars>>

\* results.js 70-102: the t-test card
pageTTest(p) ==
    IF p.analyses.tTest # Undefined /\ p.datasetCount = 2
    THEN LET tValue == ParseFloat(p.analyses.tTest.t)
         IN  [shown |-> TRUE, tValue |-> tValue, text |-> ToFixed(tValue, 3),
              df |-> p.datasets[1].n + p.datasets[2].n - 2]
    ELSE [shown |-> FALSE]

\* results.js 104-161: the one-way ANOVA card and table
pageAnova(p) ==
    IF p.analyses.anovaOneWay # Undefined
    THEN LET anova == p.analyses.anovaOneWay
             F == ParseFloat(anova.F)
         IN  [shown |-> TRUE, F |-> F, text |-> ToFixed(F, 3),
              dfBetween |-> anova.dfBetween, dfWithin |-> anova.dfWithin,
              ssBetween |-> anova.ssBetween, ssWithin |-> anova.ssWithin,
              msBetween |-> anova.msBetween, msWithin |-> anova.msWithin,
              totalSS |-> anova.totalSS, totalDf |-> anova.totalDf]
    ELSE [shown |-> FALSE]

\* results.js 1-161: the results page loads with the payload
RenderResults ==
    /\ stage = "opened"
    /\ page' = [tTest |-> pageTTest(payload), anovaOneWay |-> pageAnova(payload)]
    /\ stage' = "rendered"
    /\ UNCHANGED <<datasets, selectedOptions, errorDisplay, means, populationSDs, sampleSDs,
                   noOfItems, analysisResults, payload, legacy, rowVars, doubleVars, twoWayVars, oneWayVars, formVars>>

\* part_000 87-117: the first revision compares the same two fields
CompareDataLegacy ==
    /\ stage = "clicked"
    /\ Len(datasets) = 2
    /\ \E type \in {"population", "sample"} :
          LET field1Data == datasets[1].values
              field2Data == datasets[2].values
              calculatedMean1 == calculateMeanLegacy(field1Data)
              calculatedMean2 == calculateMeanLegacy(field2Data)
              calculatedSD1 == calculateSDLegacy(field1Data, type)
              calculatedSD2 == calculateSDLegacy(field2Data, type)
          IN  legacy' = [type |-> type, mean1 |-> calculatedMean1, mean2 |-> calculatedMean2,
                         SD1 |-> calculatedSD1, SD2 |-> calculatedSD2,
                         tTest |-> calculateTtestLegacy(calculatedMean1, calculatedMean2,
                                       calculatedSD1, calculatedSD2,
                                       Int2Num(Len(field1Data)), Int2Num(Len(field2Data)))]
    /\ stage' = "legacy"
    /\ UNCHANGED <<datasets, selectedOptions, errorDisplay, means, populationSDs, sampleSDs,
                   noOfItems, analysisResults, payload, page, rowVars, doubleVars, twoWayVars, oneWayVars, formVars>>

Next == RunAnalysis \/ RenderResults \/ CompareDataLegacy

Init == RunInit /\ RowIdle /\ DoubleIdle /\ TwoWayIdle /\ OneWayIdle /\ FormIdle

Spec == Init /\ [][Next]_vars

----------------------------------------------------------------------------
(* The same run on samples of consecutive integers, the inputs of the      *)
(* worked examples: every dataset of a run has the same number of values.  *)

\* the values start, start + 1, ..., start + n - 1
Run(start, n) == [i \in 1..n |-> Int2Num(start + i - 1)]

\* the lists of 1 to 3 samples of n consecutive integers each
RunLists(n) ==
    LET runs == {Run(start, n) : start \in 1..MaxStart}
    IN  {<<a>> : a \in runs} \cup {<<a, b>> : a \in runs, b \in runs}
        \cup {<<a, b, c>> : a \in runs, b \in runs, c \in runs}

\* script.js 862-900, as RunInit
ExampleInit ==
    /\ \E n \in MinSamples..MaxRun : \E samples \in RunLists(n) :
          datasets = collected(samples)
    /\ selectedOptions = AllOptions
    /\ stage = "clicked"
    /\ errorDisplay = ""
    /\ means = <<>>
    /\ populationSDs = <<>>
    /\ sampleSDs = <<>>
    /\ noOfItems = <<>>
    /\ analysisResults = <<>>
    /\ payload = <<>>
    /\ page = <<>>
    /\ legacy = <<>>

InitExample == ExampleInit /\ RowIdle /\ DoubleIdle /\ TwoWayIdle /\ OneWayIdle /\ FormIdle

SpecExample == InitExample /\ [][Next]_vars

----------------------------------------------------------------------------
(* Double precision.  The sums, differences, squares, quotients and square *)
(* roots of script.js 296-335 are IEEE 754 binary64 operations: each gives *)
(* the exact result rounded to 53 significant bits, to nearest, ties to    *)
(* even.  Above, a value is kept exact, which is what the code computes    *)
(* when every intermediate result is representable (small integers); here  *)
(* the rounding is modelled, for decimal inputs such as 0.1.               *)
(* A natural number is a sequence of limbs below LimbBase, the least       *)
(* significant first, without leading zero limbs.  Dbl(s, m, e) is the     *)
(* double s * m * 2^e with s in {1, -1} and m of exactly 53 bits; DZero is *)
(* 0.  The exponent range of binary64 is far from every value reached.     *)

RECURSIVE IntBitLen(_)
IntBitLen(x) == IF x = 0 THEN 0 ELSE 1 + IntBitLen(x \div 2)

LimbBase == 2^13
LimbBits == IntBitLen(LimbBase - 1)

RECURSIVE NatOf(_)
NatOf(x) == IF x = 0 THEN <<>> ELSE <<x % LimbBase>> \o NatOf(x \div LimbBase)

\* the value of a natural number that fits a machine integer
RECURSIVE NatVal(_)
NatVal(a) == IF a = <<>> THEN 0 ELSE Head(a) + LimbBase * NatVal(Tail(a))

RECURSIVE NatTrim(_)
NatTrim(a) == IF a # <<>> /\ a[Len(a)] = 0 THEN NatTrim(SubSeq(a, 1, Len(a) - 1)) ELSE a

limb(a, i) == IF i <= Len(a) THEN a[i] ELSE 0

RECURSIVE NatAddFrom(_, _, _, _)
NatAddFrom(a, b, i, c) ==
    IF i > Len(a) /\ i > Len(b) THEN NatOf(c)
    ELSE LET t == limb(a, i) + limb(b, i) + c
         IN  <<t % LimbBase>> \o NatAddFrom(a, b, i + 1, t \div LimbBase)

NatAdd(a, b) == NatAddFrom(a, b, 1, 0)

RECURSIVE NatSubFrom(_, _, _, _)
NatSubFrom(a, b, i, borrow) ==
    IF i > Len(a) THEN <<>>
    ELSE LET t == limb(a, i) - limb(b, i) - borrow
         IN  <<t % LimbBase>> \o NatSubFrom(a, b, i + 1, IF t < 0 THEN 1 ELSE 0)

\* a - b for a >= b
NatSub(a, b) == NatTrim(NatSubFrom(a, b, 1, 0))

RECURSIVE NatLessFrom(_, _, _)
NatLessFrom(a, b, i) ==
    IF i = 0 THEN FALSE
    ELSE IF a[i] # b[i] THEN a[i] < b[i]
    ELSE NatLessFrom(a, b, i - 1)

NatLess(a, b) == IF Len(a) # Len(b) THEN Len(a) < Len(b) ELSE NatLessFrom(a, b, Len(a))

RECURSIVE NatMulSmallFrom(_, _, _, _)
NatMulSmallFrom(a, f, i, c) ==
    IF i > Len(a) THEN NatOf(c)
    ELSE LET t == a[i] * f + c
         IN  <<t % LimbBase>> \o NatMulSmallFrom(a, f, i + 1, t \div LimbBase)

\* a * f for a factor f below 2^17
NatMulSmall(a, f) == IF f = 0 THEN <<>> ELSE NatMulSmallFrom(a, f, 1, 0)

ShiftLimbs(a, k) == IF a = <<>> THEN a ELSE [i \in 1..k |-> 0] \o a

RECURSIVE NatMulFrom(_, _, _)
NatMulFrom(a, b, i) ==
    IF i > Len(a) THEN <<>>
    ELSE NatAdd(NatMulSmall(b, a[i]), ShiftLimbs(NatMulFrom(a, b, i + 1), 1))

NatMul(a, b) == NatMulFrom(a, b, 1)

RECURSIVE NatDivSmallFrom(_, _, _, _)
NatDivSmallFrom(a, f, i, r) ==
    IF i = 0 THEN [q |-> <<>>, r |-> r]
    ELSE LET cur == r * LimbBase + a[i]
             rest == NatDivSmallFrom(a, f, i - 1, cur % f)
         IN  [q |-> Append(rest.q, cur \div f), r |-> rest.r]

\* quotient and remainder of a by a divisor f, 0 < f < 2^17
NatDivSmall(a, f) ==
    LET x == NatDivSmallFrom(a, f, Len(a), 0) IN [q |-> NatTrim(x.q), r |-> x.r]

NatBitLen(a) == IF a = <<>> THEN 0 ELSE LimbBits * (Len(a) - 1) + IntBitLen(a[Len(a)])

\* a * 2^k and floor(a / 2^k)
NatShl(a, k) == ShiftLimbs(NatMulSmall(a, 2^(k % LimbBits)), k \div LimbBits)
NatShr(a, k) ==
    IF k \div LimbBits >= Len(a) THEN <<>>
    ELSE NatDivSmall(SubSeq(a, k \div LimbBits + 1, Len(a)), 2^(k % LimbBits)).q

\* bit i of a, bit 0 the least significant
NatBit(a, i) == (limb(a, i \div LimbBits + 1) \div 2^(i % LimbBits)) % 2

\* the k low bits of a are zero
NatLowZero(a, k) == \A i \in 0..(k - 1) : NatBit(a, i) = 0

\* floor(sqrt(a)) and the remainder a - root^2, two bits of a at a time
RECURSIVE NatSqrtFrom(_, _, _, _)
NatSqrtFrom(a, j, root, rem) ==
    IF j < 0 THEN [root |-> root, rem |-> rem]
    ELSE LET r4 == NatAdd(NatShl(rem, 2), NatOf(2 * NatBit(a, 2 * j + 1) + NatBit(a, 2 * j)))
             trial == NatAdd(NatShl(root, 2), <<1>>)
         IN  IF NatLess(r4, trial) THEN NatSqrtFrom(a, j - 1, NatShl(root, 1), r4)
             ELSE NatSqrtFrom(a, j - 1, NatAdd(NatShl(root, 1), <<1>>), NatSub(r4, trial))

NatSqrt(a) == NatSqrtFrom(a, (NatBitLen(a) + 1) \div 2 - 1, <<>>, <<>>)

Precision == 52 + 1
Dbl(s, m, e) == [k |-> "dbl", s |-> s, m |-> m, e |-> e]
DZero == Dbl(1, <<>>, 0)
DIsZero(x) == x.m = <<>>

\* the double nearest to s * M * 2^e, or, when sticky, to a value strictly
\* between that and s * (M + 1) * 2^e (then M has more than 54 bits);
\* a tie goes to the even significand
RoundToDouble(s, M, e, sticky) ==
    IF M = <<>> THEN DZero
    ELSE LET len == NatBitLen(M)
         IN  IF len <= Precision
             THEN Dbl(s, NatShl(M, Precision - len), e - (Precision - len))
             ELSE LET k == len - Precision
                      q == NatShr(M, k)
                      half == NatBit(M, k - 1) = 1
                      rest == sticky \/ ~NatLowZero(M, k - 1)
                      up == half /\ (rest \/ NatBit(q, 0) = 1)
                      q1 == IF up THEN NatAdd(q, <<1>>) ELSE q
                  IN  IF NatBitLen(q1) > Precision
                      THEN Dbl(s, NatShr(q1, 1), e + k + 1)
                      ELSE Dbl(s, q1, e + k)

\* x + y
DAdd(x, y) ==
    IF DIsZero(x) THEN y
    ELSE IF DIsZero(y) THEN x
    ELSE LET lo == IF x.e < y.e THEN x.e ELSE y.e
             X == NatShl(x.m, x.e - lo)
             Y == NatShl(y.m, y.e - lo)
         IN  IF x.s = y.s THEN RoundToDouble(x.s, NatAdd(X, Y), lo, FALSE)
             ELSE IF X = Y THEN DZero
             ELSE IF NatLess(X, Y) THEN RoundToDouble(y.s, NatSub(Y, X), lo, FALSE)
             ELSE RoundToDouble(x.s, NatSub(X, Y), lo, FALSE)

DNeg(x) == IF DIsZero(x) THEN x ELSE Dbl(-x.s, x.m, x.e)
DSub(x, y) == DAdd(x, DNeg(y))
DMul(x, y) == RoundToDouble(x.s * y.s, NatMul(x.m, y.m), x.e + y.e, FALSE)

\* x / n for a count n, 0 < n < 2^16: the quotient has at least 55 bits
DDivInt(x, n) ==
    LET d == NatDivSmall(NatShl(x.m, 18), n)
    IN  RoundToDouble(x.s, d.q, x.e - 18, d.r # 0)

\* Math.sqrt(x) for x >= 0: the root of 109 or 110 bits has 55 bits
DSqrt(x) ==
    IF DIsZero(x) THEN DZero
    ELSE LET k == IF x.e % 2 = 0 THEN 56 ELSE 57
             r == NatSqrt(NatShl(x.m, k))
         IN  RoundToDouble(1, r.root, (x.e - k) \div 2, r.rem # <<>>)

\* the double nearest to p / q for integers 0 <= p and 0 < q < 2^13
DOfRatio(p, q) ==
    LET d == NatDivSmall(NatShl(NatOf(p), 70), q)
    IN  RoundToDouble(1, d.q, -70, d.r # 0)

\* x.toFixed(p) for p <= 3: the integer n nearest to |x| * 10^p, the larger
\* one on a tie, printed with p decimals
DToFixed(x, p) ==
    LET scaled == NatMulSmall(x.m, Pow10(p))
        n == IF x.e >= 0 THEN NatShl(scaled, x.e)
             ELSE NatShr(NatAdd(scaled, NatShl(<<1>>, -x.e - 1)), -x.e)
    IN  Fixed(p, x.s * NatVal(n))

\* a numeric piece of the textarea: the text of digits / 10^decimals
Piece(digits, decimals) == [digits |-> digits, decimals |-> decimals]

\* script.js 512: parseFloat of a numeric piece
parseFloatDouble(piece) == DOfRatio(piece.digits, Pow10(piece.decimals))

RECURSIVE summationDoubleFrom(_, _, _)
summationDoubleFrom(values, i, sum) ==
    IF i > Len(values) THEN sum
    ELSE summationDoubleFrom(values, i + 1, DAdd(sum, values[i]))

\* script.js 296-298
summationDouble(values) == summationDoubleFrom(values, 1, DZero)

\* the mean with the divisor one too small
calculateMeanDoubleOffByOne(values) ==
    IF Len(values) = 0 THEN DZero
    ELSE DDivInt(summationDouble(values), Len(values) - 1)

\* script.js 305-308
calculateMeanDouble(values) ==
    IF Len(values) = 0 THEN DZero
    ELSE DDivInt(summationDouble(values), Len(values))

\* script.js 316-318; Math.pow(d, 2) is taken as the rounded product d * d
getSquareDifferencesDouble(data, mean) ==
    [i \in 1..Len(data) |-> LET d == DSub(data[i], mean) IN DMul(d, d)]

\* script.js 326-335, for a sample of two values or more
calculateSDDouble(data, type) ==
    IF Len(data) = 0 THEN Fixed(3, 0)
    ELSE LET mean == calculateMeanDouble(data)
             squaredDiffs == getSquareDifferencesDouble(data, mean)
             sumSquaredDiff == summationDouble(squaredDiffs)
             variance == IF type = "population"
                         THEN DDivInt(sumSquaredDiff, Len(data))
                         ELSE DDivInt(sumSquaredDiff, Len(data) - 1)
         IN  DToFixed(DSqrt(variance), 3)

----------------------------------------------------------------------------
(* One dataset in double precision: numeric pieces are typed, then Run     *)
(* Analysis computes the statistics of script.js 904-907.                  *)

\* the texts "1", "0.1" and "0.7"
Pieces3 == {Piece(1, 0), Piece(1, 1), Piece(7, 1)}

DoubleInit ==
    /\ typed = <<>>
    /\ dstage = "typing"
    /\ dmean = <<>>
    /\ dpopulationSD = <<>>
    /\ dsampleSD = <<>>

\* script.js 575-614: one more numeric piece in the textarea
TypePiece ==
    /\ dstage = "typing"
    /\ Len(typed) < MaxPieces
    /\ \E piece \in Pieces3 : typed' = Append(typed, piece)
    /\ UNCHANGED <<dstage, dmean, dpopulationSD, dsampleSD, rowVars, runVars, twoWayVars, oneWayVars, formVars>>

\* script.js 857-907: the click handler validates the row (510-516: at
\* least MinSamples numbers) and computes its statistics
RunDouble ==
    /\ dstage = "typing"
    /\ Len(typed) >= MinSamples
    /\ LET values == SeqMap(parseFloatDouble, typed)
       IN  /\ dmean' = calculateMeanDouble(values)
           /\ dpopulationSD' = calculateSDDouble(values, "population")
           /\ dsampleSD' = calculateSDDouble(values, "sample")
    /\ dstage' = "computed"
    /\ UNCHANGED <<typed, rowVars, runVars, twoWayVars, oneWayVars, formVars>>

DoubleNext == TypePiece \/ RunDouble

InitDouble == DoubleInit /\ RowIdle /\ RunIdle /\ TwoWayIdle /\ OneWayIdle /\ FormIdle

SpecDouble == InitDouble /\ [][DoubleNext]_vars


----------------------------------------------------------------------------
(* The two analyses of variance applied to labelled data arrays            *)

\* labels that name two levels without whitespace
LabelTexts ==
    {<<"A", "-", "X">>, <<"A", "-", "Y">>, <<"B", "-", "X">>, <<"B", "-", "Y">>}

\* a label with whitespace beside the "-", and a label without "-"
OddLabelTexts == {<<"A", " ", "-", " ", "X">>, <<"A", "X">>}

\* the labels of count datasets, at most one of them odd
LabelLists(count) ==
    LET plain == [1..count -> LabelTexts]
    IN  plain \cup {[l EXCEPT ![i] = odd] : l \in plain, i \in 1..count, odd \in OddLabelTexts}

\* the values of dataset i: n values, the last dataset one more when the
\* shape is "uneven"
ValuesOfShape(shape, n, i, count) ==
    IF shape = "constant" THEN [q \in 1..n |-> Int2Num(1)]
    ELSE IF shape = "uneven" /\ i = count THEN Run(i, n + 1)
    ELSE Run(i, n)

\* cells of n consecutive values each, of one value each but for the last,
\* or of the same two values each
DataShapes ==
    {[shape |-> "runs", n |-> n] : n \in 1..MaxCellSize}
        \cup {[shape |-> "uneven", n |-> 1], [shape |-> "constant", n |-> 2]}

TwoWayInit ==
    /\ \E count \in 1..MaxCells : \E labels \in LabelLists(count) : \E d \in DataShapes :
            twDatasets = [i \in 1..count |->
                             [label |-> labels[i],
                              values |-> ValuesOfShape(d.shape, d.n, i, count)]]
    /\ twStage = "clicked"
    /\ twResult = <<>>
    /\ twReported = <<>>
    /\ twDisplay = Str("")
    /\ twLevels = <<>>

InitTwoWay == TwoWayInit /\ RowIdle /\ RunIdle /\ DoubleIdle /\ OneWayIdle /\ FormIdle

\* script.js 821-834: case "anova-two-way" of performAnalyses
RunTwoWay ==
    /\ twStage = "clicked"
    /\ twResult' = calculateTwoWayAnova(SeqMap(valuesOf, twDatasets), twDatasets)
    /\ twReported' = reportedTwoWay(twResult')
    /\ twDisplay' = displayTwoWay(twResult')
    /\ twLevels' = levelsOf(parseLabels(SeqMap(valuesOf, twDatasets), twDatasets))
    /\ twStage' = "twoWay"
    /\ UNCHANGED <<twDatasets, rowVars, runVars, doubleVars, oneWayVars, formVars>>

TwoWayNext == RunTwoWay

SpecTwoWay == InitTwoWay /\ [][TwoWayNext]_vars

----------------------------------------------------------------------------
(* One run with any selection of options in any order                      *)

\* the values of the checkboxes: the cases of script.js 779-835 and a value
\* the switch does not know
OptionNames ==
    {"mean", "sample-std-dev", "population-std-dev", "t-test", "anova-one-way",
     "anova-two-way", "regression"}

\* script.js 883-885: the checked boxes in the order of the page, at most n
RECURSIVE Selections(_)
Selections(n) ==
    IF n = 0 THEN {<<>>}
    ELSE Selections(n - 1) \cup
         {Append(sel, o) : sel \in {x \in Selections(n - 1) : Len(x) = n - 1},
                           o \in OptionNames}

DistinctOptions(sel) == \A i, j \in 1..Len(sel) : sel[i] = sel[j] => i = j

\* script.js 875: the label typed for row i, the levels of two factors taken
\* in turn (A-X, A-Y, B-X, B-Y, C-X, ...)
GridLabel(i) ==
    <<<<"A", "B", "C", "D">>[((i - 1) \div 2) + 1], "-", <<"X", "Y">>[((i - 1) % 2) + 1]>>

\* script.js 875: the label of row i when nothing is typed, `Dataset ${id}`
DefaultLabel(i) == <<"D", "a", "t", "a", "s", "e", "t", " ", ToString(i)>>

\* script.js 874-877: count valid rows of three values each
OptionDatasets(count, kind) ==
    [i \in 1..count |->
        [label |-> IF kind = "grid" THEN GridLabel(i) ELSE DefaultLabel(i),
         values |-> Run(i, 3)]]

\* script.js 862-900: the state the click handler leaves, the timer pending
OptionsInit ==
    /\ \E count \in 1..MaxCells : \E kind \in {"grid", "default"} :
            datasets = OptionDatasets(count, kind)
    /\ selectedOptions \in {sel \in Selections(MaxOptions) : sel # <<>> /\ DistinctOptions(sel)}
    /\ stage = "clicked"
    /\ errorDisplay = ""
    /\ means = <<>>
    /\ populationSDs = <<>>
    /\ sampleSDs = <<>>
    /\ noOfItems = <<>>
    /\ analysisResults = <<>>
    /\ payload = <<>>
    /\ page = <<>>
    /\ legacy = <<>>

InitOptions == OptionsInit /\ RowIdle /\ DoubleIdle /\ TwoWayIdle /\ OneWayIdle /\ FormIdle

OptionsNext == RunAnalysis \/ RenderResults

SpecOptions == InitOptions /\ [][OptionsNext]_vars

----------------------------------------------------------------------------
(* calculateOneWayAnova applied to groups of any size                      *)

\* the data arrays a group may be: consecutive values from 1 or from 2
GroupValues == {Run(start, n) : start \in {1, 2}, n \in 1..MaxCellSize}

OneWayInit ==
    /\ \E count \in 1..MaxCells : owGroups \in [1..count -> GroupValues]
    /\ owStage = "called"
    /\ owResult = <<>>

InitOneWay == OneWayInit /\ RowIdle /\ RunIdle /\ DoubleIdle /\ TwoWayIdle /\ FormIdle

\* script.js 364-396: calculateOneWayAnova, with the means and the counts of
\* script.js 904, 907
CallOneWay ==
    /\ owStage = "called"
    /\ owResult' = calculateOneWayAnova(owGroups,
                                        [i \in 1..Len(owGroups) |-> calculateMean(owGroups[i])],
                                        [i \in 1..Len(owGroups) |-> Int2Num(Len(owGroups[i]))])
    /\ owStage' = "returned"
    /\ UNCHANGED <<owGroups, rowVars, runVars, doubleVars, twoWayVars, formVars>>

\* script.js 904-907: the statistics the caller computes of the groups
owMeans == [i \in 1..Len(owGroups) |-> calculateMean(owGroups[i])]
owNoOfItems == [i \in 1..Len(owGroups) |-> Int2Num(Len(owGroups[i]))]
owPopulationSDs == [i \in 1..Len(owGroups) |-> calculateSD(owGroups[i], "population")]
owSampleSDs == [i \in 1..Len(owGroups) |-> calculateSD(owGroups[i], "sample")]

\* script.js 344-355: calculateTtest called with the statistics of the groups
CallTtest ==
    /\ owStage = "called"
    /\ owResult' = calculateTtest(owMeans, owNoOfItems, ttestSDs(owPopulationSDs))
    /\ owStage' = "ttest"
    /\ UNCHANGED <<owGroups, rowVars, runVars, doubleVars, twoWayVars, formVars>>

\* script.js 326-335: calculateSD called in sample mode with the first group
CallSD ==
    /\ owStage = "called"
    /\ owResult' = calculateSD(owGroups[1], "sample")
    /\ owStage' = "sd"
    /\ UNCHANGED <<owGroups, rowVars, runVars, doubleVars, twoWayVars, formVars>>

\* the options of the call of performAnalyses
OwOptions == <<"t-test", "anova-one-way">>

\* the groups as datasets with the default labels of script.js 878
owDatasets == [i \in 1..Len(owGroups) |-> [label |-> LabelOf(i), values |-> owGroups[i]]]

\* script.js 767-845: performAnalyses called with the groups for the t-test
\* and the one-way analysis of variance
CallPerformAnalyses ==
    /\ owStage = "called"
    /\ owResult' = performAnalyses(owGroups, owMeans, owSampleSDs, owPopulationSDs,
                                   owNoOfItems, OwOptions, owDatasets, "")
    /\ owStage' = "analyses"
    /\ UNCHANGED <<owGroups, rowVars, runVars, doubleVars, twoWayVars, formVars>>

OneWayNext == CallOneWay \/ CallTtest \/ CallSD \/ CallPerformAnalyses

SpecOneWay == InitOneWay /\ [][OneWayNext]_vars

----------------------------------------------------------------------------
(* Claims about the statistics, checked under Spec.  The reference values  *)
(* are written from the observations themselves, as integers.              *)

Computed == stage \in {"opened", "rendered"}

RECURSIVE SumInt(_, _)
SumInt(f(_), xs) == IF xs = <<>> THEN 0 ELSE f(Head(xs)) + SumInt(f, Tail(xs))

intOf(x) == x.n
intSquareOf(x) == x.n * x.n

\* the sum of the observations, and of their squares
Sx(xs) == SumInt(intOf, xs)
Sxx(xs) == SumInt(intSquareOf, xs)

\* sum of (x - mean)^2 = (n * Sxx - Sx^2) / n
RefSumSquaredDeviation(xs) == Fin(Len(xs) * Sxx(xs) - Sx(xs) * Sx(xs), Len(xs))
RefPopulationVariance(xs) ==
    Fin(Len(xs) * Sxx(xs) - Sx(xs) * Sx(xs), Len(xs) * Len(xs))
RefSampleVariance(xs) ==
    Fin(Len(xs) * Sxx(xs) - Sx(xs) * Sx(xs), Len(xs) * (Len(xs) - 1))
RefMean(xs) == Fin(Sx(xs), Len(xs))

RefSD(xs, type) ==
    ToFixed(MathSqrt(IF type = "population" THEN RefPopulationVariance(xs)
                     ELSE RefSampleVariance(xs)), 3)

IsConstant(xs) == \A i \in 1..Len(xs) : xs[i] = xs[1]

\* C4: each standard deviation printed is that of the population variance
\* sumSquaredDeviation / n or of the sample variance sumSquaredDeviation / (n - 1),
\* in script.js and in part_000 alike.
C4_VarianceFormulas ==
    /\ Computed =>
          \A i \in 1..Len(datasets) :
              /\ populationSDs[i] = RefSD(datasets[i].values, "population")
              /\ sampleSDs[i] = RefSD(datasets[i].values, "sample")
    /\ stage = "legacy" =>
          /\ legacy.SD1 = RefSD(datasets[1].values, legacy.type)
          /\ legacy.SD2 = RefSD(datasets[2].values, legacy.type)

DoubleComputed == dstage = "computed"

\* the pieces typed are n >= 3 copies of one text
IdenticalPieces ==
    /\ Len(typed) >= 3
    /\ \A i \in 1..Len(typed) : typed[i] = typed[1]

\* |x - c| <= n * 2^-52 * |c|, for doubles x and c of one sign, c not zero
WithinRounding(x, c, n) ==
    /\ ~DIsZero(x)
    /\ x.s = c.s
    /\ LET lo == IF x.e < c.e THEN x.e ELSE c.e
           X == NatShl(x.m, x.e - lo)
           C == NatShl(c.m, c.e - lo)
           diff == IF NatLess(X, C) THEN NatSub(C, X) ELSE NatSub(X, C)
       IN  ~NatLess(NatMulSmall(C, n), NatShl(diff, Precision - 1))

\* C5: for a sample of n >= 3 identical values c, calculateMean returns c
\* and calculateSD returns zero in population and in sample mode.
C5_IdenticalValues ==
    (DoubleComputed /\ IdenticalPieces) =>
        /\ dmean = parseFloatDouble(typed[1])
        /\ dpopulationSD = Fixed(3, 0)
        /\ dsampleSD = Fixed(3, 0)

\* C5, as the code has it: for a sample of n >= 3 identical values c,
\* calculateMean returns c up to the rounding of the sum and of the division
\* (|mean - c| <= n * 2^-52 * |c|), and exactly c for the integer 1, and
\* calculateSD returns "0.000" in population and in sample mode.
C5_IdenticalValuesRounded ==
    (DoubleComputed /\ IdenticalPieces) =>
        /\ WithinRounding(dmean, parseFloatDouble(typed[1]), Len(typed))
        /\ typed[1].decimals = 0 => dmean = parseFloatDouble(typed[1])
        /\ dpopulationSD = Fixed(3, 0)
        /\ dsampleSD = Fixed(3, 0)

C5_Witness ==
    /\ DoubleComputed
    /\ IdenticalPieces
    /\ typed[1] = Piece(1, 1)
    /\ dmean # parseFloatDouble(typed[1])
    /\ dsampleSD = Fixed(3, 0)

TTestComputed == Computed /\ Len(datasets) = 2 /\ HasOption(selectedOptions, "t-test")

\* C6: the standard deviations handed to calculateTtest are unrounded: the
\* square of each is the population variance of its dataset.
C6_UnroundedSDs ==
    TTestComputed =>
        \A i \in 1..2 :
            Square(ttestSDs(populationSDs)[i]) = RefPopulationVariance(datasets[i].values)

\* the standard error sqrt(sd1^2/n1 + sd2^2/n2) of the run is zero
ZeroStandardError ==
    /\ NumIsZero(ttestSDs(populationSDs)[1])
    /\ NumIsZero(ttestSDs(populationSDs)[2])

IsNaNOrInfinity(x) == x.k \in {"NaN", "Infinity", "-Infinity"}

\* C7: with a zero standard error neither the result of calculateTtest nor
\* the t value the results page derives from it is NaN or an Infinity.
C7_ZeroErrorSentinel ==
    (TTestComputed /\ ZeroStandardError) =>
        /\ ~IsNaNOrInfinity(analysisResults.ttest)
        /\ analysisResults.ttest # Str("NaN")
        /\ stage = "rendered" =>
              /\ page.tTest.shown
              /\ ~IsNaNOrInfinity(page.tTest.tValue)
              /\ page.tTest.text.k = "fixed"

Swap(pair) == <<pair[2], pair[1]>>

\* C8: with a non-zero standard error, calculateTtest on the two groups
\* exchanged gives the negated t, so |t| is unchanged.
C8_SwapNegates ==
    (TTestComputed /\ ~ZeroStandardError) =>
        LET t == analysisResults.ttest
            swapped == calculateTtest(Swap(means), Swap(noOfItems),
                                      Swap(ttestSDs(populationSDs)))
        IN  /\ t.k = "fixed"
            /\ swapped.k = "fixed"
            /\ swapped.v = -t.v
            /\ Abs(swapped.v) = Abs(t.v)

C8_Witness ==
    /\ TTestComputed
    /\ ~ZeroStandardError
    /\ noOfItems[1] # noOfItems[2]
    /\ populationSDs[1] # populationSDs[2]
    /\ analysisResults.ttest.k = "fixed"
    /\ analysisResults.ttest.v < 0

AnovaComputed == Computed /\ Len(datasets) >= 2 /\ HasOption(selectedOptions, "anova-one-way")

RECURSIVE SumNum(_, _)
SumNum(f(_), xs) == IF xs = <<>> THEN Int2Num(0) ELSE NumAdd(f(Head(xs)), SumNum(f, Tail(xs)))

refMeanOf(d) == RefMean(d.values)
refWithinOf(d) == RefSumSquaredDeviation(d.values)
countOf(d) == Len(d.values)

\* N, k, the mean of the group means, and the two sums of squares
RefN(ds) == SumInt(countOf, ds)
RefGrandMean(ds) == NumDiv(SumNum(refMeanOf, ds), Int2Num(Len(ds)))
RefSSB(ds) ==
    LET between(d) == NumMul(Int2Num(Len(d.values)),
                             Square(NumSub(RefMean(d.values), RefGrandMean(ds))))
    IN  SumNum(between, ds)
RefSSW(ds) == SumNum(refWithinOf, ds)
RefMSB(ds) == NumDiv(RefSSB(ds), Int2Num(Len(ds) - 1))
RefMSW(ds) == NumDiv(RefSSW(ds), Int2Num(RefN(ds) - Len(ds)))

C10_FIsTSquared ==
    (TTestComputed /\ AnovaComputed) =>
        LET t == analysisResults.ttest
            F == analysisResults.anovaOneWay.F
        IN  IF t.k = "fixed" /\ F.k = "fixed"
            THEN Abs(F.v * 10000 - t.v * t.v) <= 10000 + 2 * Abs(t.v)
            ELSE t = F


----------------------------------------------------------------------------
(* The worked examples, checked under SpecExample *)

\* the run on the groups [1,2,3], [4,5,6], [7,8,9]
AnovaExample ==
    /\ Computed
    /\ SeqMap(valuesOf, datasets) = <<Run(1, 3), Run(4, 3), Run(7, 3)>>

\* C11: one-way ANOVA on [1,2,3], [4,5,6], [7,8,9] yields grand mean 5,
\* SSB = 6, SSW = 6, dfBetween = 2, dfWithin = 6, MSB = 3, MSW = 1, F = 3.00.
C11_AnovaExample ==
    AnovaExample =>
        LET a == analysisResults.anovaOneWay
        IN  /\ calculateMean(means) = Int2Num(5)
            /\ a.ssBetween = Fixed(3, 6000)
            /\ a.ssWithin = Fixed(3, 6000)
            /\ a.dfBetween = Int2Num(2)
            /\ a.dfWithin = Int2Num(6)
            /\ a.msBetween = Fixed(3, 3000)
            /\ a.msWithin = Fixed(3, 1000)
            /\ a.F = Fixed(2, 300)

\* C11, as the code has it: the group means are 2, 5, 8, so grand mean 5,
\* SSB = 3 * 9 + 0 + 3 * 9 = 54, SSW = 6, dfBetween = 2, dfWithin = 6,
\* MSB = 27, MSW = 1 and F = 27.00.
C11_AnovaExampleComputed ==
    AnovaExample =>
        LET a == analysisResults.anovaOneWay
        IN  /\ means = <<Int2Num(2), Int2Num(5), Int2Num(8)>>
            /\ calculateMean(means) = Int2Num(5)
            /\ a.ssBetween = Fixed(3, 54000)
            /\ a.ssWithin = Fixed(3, 6000)
            /\ a.dfBetween = Int2Num(2)
            /\ a.dfWithin = Int2Num(6)
            /\ a.msBetween = Fixed(3, 27000)
            /\ a.msWithin = Fixed(3, 1000)
            /\ a.F = Fixed(2, 2700)

C11_Witness == AnovaExample /\ analysisResults.anovaOneWay.F.k = "fixed"

\* the run on the datasets [1,2,3,4,5] and [2,3,4,5,6]
TTestExample ==
    /\ Computed
    /\ SeqMap(valuesOf, datasets) = <<Run(1, 5), Run(2, 5)>>

\* C12: for [1,2,3,4,5] and [2,3,4,5,6] the means are 3 and 4, the population
\* standard deviations both 1.414 and the t statistic -1.000.
C12_TTestExample ==
    TTestExample =>
        /\ means = <<Int2Num(3), Int2Num(4)>>
        /\ populationSDs = <<Fixed(3, 1414), Fixed(3, 1414)>>
        /\ analysisResults.ttest = Fixed(3, -1000)



----------------------------------------------------------------------------
(* Claims about the two analyses of variance, checked under SpecTwoWay and *)
(* SpecOneWay                                                              *)

TwoWayRan == twStage = "twoWay"

ReturnsF == TwoWayRan /\ twResult.error = Undefined

\* the datasets whose label names the levels a and b
DatasetsOfCell(a, b) ==
    {i \in 1..Len(twDatasets) :
        LET match == matchLabelPattern(Trim(twDatasets[i].label))
        IN  match.matched /\ match.a = a /\ match.b = b}

\* C13: calculateTwoWayAnova returns F statistics only when every combination
\* of a factor-A level and a factor-B level is assigned exactly one dataset;
\* two datasets with the same label make it fail.
C13_ExactlyOneDataset ==
    ReturnsF =>
        \A i \in 1..Len(twLevels.A) : \A j \in 1..Len(twLevels.B) :
            Cardinality(DatasetsOfCell(twLevels.A[i], twLevels.B[j])) = 1


\* the pairs <<i, j>> of a level of A and a level of B without a dataset
MissingPairs ==
    {p \in (1..Len(twLevels.A)) \X (1..Len(twLevels.B)) :
        DatasetsOfCell(twLevels.A[p[1]], twLevels.B[p[2]]) = {}}

\* the first of them, the levels of B running under each level of A
FirstMissingPair ==
    CHOOSE p \in MissingPairs :
        \A q \in MissingPairs : p[1] < q[1] \/ (p[1] = q[1] /\ p[2] <= q[2])

LabelsOfRun == {twDatasets[i].label : i \in 1..Len(twDatasets)}

\* C14: when some combination of an A-level and a B-level has no dataset,
\* calculateTwoWayAnova fails with the missing-combination error naming the
\* first missing pair in level order, and returns no F statistic.
C14_MissingCombination ==
    (TwoWayRan /\ ~twLevels.malformed /\ MissingPairs # {}) =>
        /\ DOMAIN twResult = {"error"}
        /\ twResult.error.t = ErrMissing
        /\ twResult.error.names = keyOf(twLevels.A[FirstMissingPair[1]],
                                        twLevels.B[FirstMissingPair[2]])

\* the labels {A-X, A-Y, B-X} fail naming B-Y
C14_Witness ==
    /\ TwoWayRan
    /\ Len(twDatasets) = 3
    /\ LabelsOfRun = {<<"A", "-", "X">>, <<"A", "-", "Y">>, <<"B", "-", "X">>}
    /\ twResult.error.t = ErrMissing
    /\ twResult.error.names = <<"B", "-", "Y">>


\* every label names two levels, each factor has two levels or more, and each
\* combination of levels has exactly one dataset
CompleteDesign ==
    /\ ~twLevels.malformed
    /\ Len(twLevels.A) >= 2
    /\ Len(twLevels.B) >= 2
    /\ \A i \in 1..Len(twLevels.A) : \A j \in 1..Len(twLevels.B) :
          Cardinality(DatasetsOfCell(twLevels.A[i], twLevels.B[j])) = 1

\* every cell has the same number of observations
BalancedDesign ==
    \A i, j \in 1..Len(twDatasets) : Len(twDatasets[i].values) = Len(twDatasets[j].values)

\* C15: when the cells of a complete design do not all have the same number
\* of observations, calculateTwoWayAnova fails instead of returning F statistics.
C15_UnbalancedFails ==
    (TwoWayRan /\ CompleteDesign /\ ~BalancedDesign) => ~ReturnsF


\* the position of the first "-" of a text that has one
FirstHyphen(text) ==
    CHOOSE i \in 1..Len(text) : text[i] = "-" /\ \A q \in 1..(i - 1) : text[q] # "-"

\* the level of factor A a label names: the text left of its first "-", trimmed
TrimmedLevelA(text) == Trim(SubSeq(text, 1, FirstHyphen(text) - 1))

\* the level of factor B: the text right of the first "-", trimmed
TrimmedLevelB(text) == Trim(SubSeq(text, FirstHyphen(text) + 1, Len(text)))

LevelSet(levels) == {levels[i] : i \in 1..Len(levels)}

\* C16: each label is split at its first "-" and each of the two levels is
\* trimmed of leading and trailing whitespace before the levels are compared,
\* so that "A - X" and "A-Y" contribute the same A-level "A".
C16_LevelsTrimmed ==
    (TwoWayRan /\ ~twLevels.malformed) =>
        /\ LevelSet(twLevels.A) = {TrimmedLevelA(l) : l \in LabelsOfRun}
        /\ LevelSet(twLevels.B) = {TrimmedLevelB(l) : l \in LabelsOfRun}


HasHyphen(text) == \E i \in 1..Len(text) : text[i] = "-"

\* C17: if any label contains no "-", calculateTwoWayAnova fails with the
\* malformed-label error and computes no F statistic, whatever the other
\* labels are.
C17_MalformedLabel ==
    (TwoWayRan /\ \E l \in LabelsOfRun : ~HasHyphen(l)) =>
        /\ DOMAIN twResult = {"error"}
        /\ twResult.error.t = ErrLabelFormat

\* a full 2 x 2 design and a fifth dataset labelled "AX"
C17_Witness ==
    /\ TwoWayRan
    /\ LabelsOfRun = {<<"A", "-", "X">>, <<"A", "-", "Y">>, <<"B", "-", "X">>,
                      <<"B", "-", "Y">>, <<"A", "X">>}
    /\ twDatasets[5].label = <<"A", "X">>
    /\ twResult.error.t = ErrLabelFormat
    /\ twReported = twResult.error


\* the mean of a sequence of observations
MeanOfObs(obs) == NumDiv(summation(obs), Int2Num(Len(obs)))

\* all observations of all cells
TwObservations == flat([i \in 1..Len(twDatasets) |-> twDatasets[i].values])

TwGrandMean == MeanOfObs(TwObservations)

\* the observations of the cells whose label names the A-level a
RowObservations(a) ==
    flat([i \in 1..Len(twDatasets) |->
            IF matchLabelPattern(Trim(twDatasets[i].label)).a = a
            THEN twDatasets[i].values ELSE <<>>])

\* the observations of the cells whose label names the B-level b
ColObservations(b) ==
    flat([i \in 1..Len(twDatasets) |->
            IF matchLabelPattern(Trim(twDatasets[i].label)).b = b
            THEN twDatasets[i].values ELSE <<>>])

TwNPerCell == Len(twDatasets[1].values)

TwSSA ==
    summation([i \in 1..Len(twLevels.A) |->
        NumMul(Int2Num(TwNPerCell * Len(twLevels.B)),
               Square(NumSub(MeanOfObs(RowObservations(twLevels.A[i])), TwGrandMean)))])

TwSSB ==
    summation([j \in 1..Len(twLevels.B) |->
        NumMul(Int2Num(TwNPerCell * Len(twLevels.A)),
               Square(NumSub(MeanOfObs(ColObservations(twLevels.B[j])), TwGrandMean)))])

\* the within-cell sum of squares
TwSSError ==
    summation([i \in 1..Len(twDatasets) |->
        summation([q \in 1..Len(twDatasets[i].values) |->
            Square(NumSub(twDatasets[i].values[q], MeanOfObs(twDatasets[i].values)))])])

TwDfA == Len(twLevels.A) - 1
TwDfB == Len(twLevels.B) - 1
TwDfError == Len(TwObservations) - Len(twLevels.A) * Len(twLevels.B)

TwMSError == NumDiv(TwSSError, Int2Num(TwDfError))

\* C18: for a complete, balanced design with distinct labels and dfError > 0,
\* F_A = (SSA / dfA) / (SSError / dfError) and F_B = (SSB / dfB) / (SSError / dfError)
\* with the grand mean over all observations, SSA = sum over the A-levels of
\* (nPerCell * |levelsB|) * (rowMean - grandMean)^2, SSB symmetrically, SSError
\* the within-cell sum of squares, dfA = |levelsA| - 1, dfB = |levelsB| - 1 and
\* dfError = N - |levelsA| * |levelsB|; each F as rounded for display.
C18_TwoWayFormulas ==
    (TwoWayRan /\ CompleteDesign /\ BalancedDesign /\ TwDfError > 0) =>
        /\ ReturnsF
        /\ \/ /\ ~NumIsZero(TwMSError)
              /\ twResult.factorA_F =
                    ToFixed(NumDiv(NumDiv(TwSSA, Int2Num(TwDfA)), TwMSError), 3)
              /\ twResult.factorB_F =
                    ToFixed(NumDiv(NumDiv(TwSSB, Int2Num(TwDfB)), TwMSError), 3)
           \/ /\ NumIsZero(TwMSError)
              /\ twResult.factorA_F = Str("Infinity")
              /\ twResult.factorB_F = Str("Infinity")

\* a 2 x 2 design with two observations in each cell and both effects present
C18_Witness ==
    /\ TwoWayRan
    /\ CompleteDesign
    /\ BalancedDesign
    /\ Len(twDatasets) = 4
    /\ TwNPerCell = 2
    /\ ReturnsF
    /\ twResult.factorA_F.k = "fixed"
    /\ twResult.factorA_F.v > 0
    /\ twResult.factorB_F.k = "fixed"
    /\ twResult.factorB_F.v > 0
    /\ twResult.factorA_F # twResult.factorB_F


OneWayRan == owStage = "returned"

\* N - k of the groups given to calculateOneWayAnova
OwDfWithin == Len(flat(owGroups)) - Len(owGroups)

\* C19: calculateOneWayAnova fails whenever dfWithin = N - k <= 0; it never
\* reports an F computed with a zero or negative dfWithin.
C19_DegenerateOneWay ==
    (OneWayRan /\ OwDfWithin <= 0) => owResult = AnovaNA

\* C20: calculateTwoWayAnova fails whenever dfError = N - |levelsA| * |levelsB|
\* is zero or negative, as with one observation in each cell; it never reports
\* F_A or F_B computed with such a dfError.
C20_DegenerateTwoWay ==
    (TwoWayRan /\ CompleteDesign /\ TwDfError <= 0) => ~ReturnsF


----------------------------------------------------------------------------
(* Claims about the outcomes of degenerate inputs                          *)

\* the within-group mean square of the run is zero: every group is constant
ZeroMSW == \A i \in 1..Len(datasets) : IsConstant(datasets[i].values)

\* C21: whenever the within-group mean square is zero, also when the
\* between-group sum of squares is zero too, calculateOneWayAnova reports F as
\* the infinity sentinel, the text "Infinity", not a number and not NaN.
C21_InfinitySentinel ==
    (AnovaComputed /\ ZeroMSW) => analysisResults.anovaOneWay.F = Str("Infinity")

\* constant groups with the same value: MSB and MSW are both zero
C21_Witness ==
    /\ AnovaComputed
    /\ ZeroMSW
    /\ \A i \in 1..Len(datasets) : datasets[i].values[1] = datasets[1].values[1]
    /\ analysisResults.anovaOneWay.msBetween = Fixed(3, 0)
    /\ analysisResults.anovaOneWay.msWithin = Fixed(3, 0)
    /\ analysisResults.anovaOneWay.F = Str("Infinity")


\* C27: the totalSS reported for a one-way analysis of variance is the numeric
\* sum of the reported ssBetween and ssWithin, to 3 decimals, in the results
\* of the run and in the Total row of the table of the results page.
C27_TotalSS ==
    AnovaComputed =>
        LET anova == analysisResults.anovaOneWay
            total == ToFixed(NumAdd(ParseFloat(anova.ssBetween), ParseFloat(anova.ssWithin)), 3)
        IN  /\ anova.totalSS = total
            /\ stage = "rendered" => page.anovaOneWay.totalSS = total

\* the function of the section has returned
TtestReturned == owStage = "ttest"
SDReturned == owStage = "sd"
AnalysesReturned == owStage = "analyses"

\* C22: with a number of groups other than two, calculateTtest returns the
\* text "N/A" and performAnalyses records "N/A (requires exactly 2 datasets)"
\* with the message that the t-test requires exactly 2 datasets: neither
\* holds a t value
C22_TTestArity ==
    /\ (TtestReturned /\ Len(owGroups) # 2) => owResult = Str("N/A")
    /\ (TtestReturned /\ Len(owGroups) = 2) => owResult # Str("N/A")
    /\ (AnalysesReturned /\ Len(owGroups) # 2) =>
           owResult.results.ttest = Str("N/A (requires exactly 2 datasets)")
    /\ (AnalysesReturned /\ Len(owGroups) = 1) =>
           owResult.error = "One-Way ANOVA requires at least 2 datasets."
    /\ (AnalysesReturned /\ Len(owGroups) = 2) =>
           owResult.results.ttest \notin {Undefined, Str("N/A"), Str("N/A (requires exactly 2 datasets)")}

\* calculateTtest has refused three groups
C22_Witness ==
    /\ TtestReturned
    /\ Len(owGroups) = 3
    /\ owResult = Str("N/A")

\* C23: with fewer than two groups, calculateOneWayAnova returns F "N/A"
\* without sums of squares, and performAnalyses records
\* "N/A (requires 2+ datasets)" and the message that at least 2 datasets are
\* required
C23_AnovaArity ==
    /\ (OneWayRan /\ Len(owGroups) < 2) => owResult = AnovaNA
    /\ (OneWayRan /\ Len(owGroups) >= 2) => owResult.ESSb # Undefined
    /\ (AnalysesReturned /\ Len(owGroups) < 2) =>
           /\ owResult.results.anovaOneWay = Str("N/A (requires 2+ datasets)")
           /\ owResult.error = "One-Way ANOVA requires at least 2 datasets."

\* calculateOneWayAnova has refused a single group
C23_Witness ==
    /\ OneWayRan
    /\ Len(owGroups) = 1
    /\ owResult.F = Str("N/A")
    /\ owResult.ESSb = Undefined

\* C24: calculateSD in sample mode on a single value returns a result that
\* is neither the text "NaN" nor "Infinity"
C24_SampleOfOne ==
    (SDReturned /\ Len(owGroups[1]) = 1) =>
        (owResult # Str("NaN") /\ owResult # Str("Infinity"))

----------------------------------------------------------------------------
(* AnalyzerForm: the rows of the form, Run Analysis and its timer,         *)
(* script.js 518-979                                                       *)

\* script.js 575-614: the row createDatasetRow(id) returns; it has a remove
\* button with a listener of its own
createDatasetRow(id) ==
    [id |-> id, label |-> DefaultLabel(id), text |-> <<>>, msg |-> "", color |-> "",
     removable |-> TRUE, dynamic |-> TRUE]

\* a row written in the page itself: its remove button has no listener of
\* its own
staticRow(id) == [createDatasetRow(id) EXCEPT !.dynamic = FALSE]

\* script.js 607, 634, 725, 978: the remove button is taken out of the row
withoutRemoveButton(row) == [row EXCEPT !.removable = FALSE]

\* the container left empty by the last removal
notReplenished(form) == form

\* script.js 604-609, 632-637: an empty container gets a new row that cannot
\* be removed
replenished(form) ==
    IF form.rows = <<>>
    THEN [rows |-> <<withoutRemoveButton(createDatasetRow(form.count + 1))>>,
          count |-> form.count + 1]
    ELSE form

removeAt(rows, i) == SubSeq(rows, 1, i - 1) \o SubSeq(rows, i + 1, Len(rows))

\* script.js 630: datasetContainer.querySelector(`[data-id="${id}"]`), the
\* position of the first row of that id, or 0
RECURSIVE firstWithId(_, _, _)
firstWithId(rows, id, i) ==
    IF i > Len(rows) THEN 0
    ELSE IF rows[i].id = id THEN i
    ELSE firstWithId(rows, id, i + 1)

\* script.js 602-610: the listener of the row's own button
ownRemove(form, i) == replenished([form EXCEPT !.rows = removeAt(form.rows, i)])

\* script.js 625-638: the listener of the container
delegatedRemove(form, id) ==
    replenished([form EXCEPT !.rows = IF firstWithId(form.rows, id, 1) = 0 THEN form.rows
                                      ELSE removeAt(form.rows, firstWithId(form.rows, id, 1))])

\* a click on the remove button of row i: the button's listener, then the
\* container's as the event bubbles
removeClicked(form, i) ==
    delegatedRemove(IF form.rows[i].dynamic THEN ownRemove(form, i) ELSE form,
                    form.rows[i].id)

\* script.js 541-562: the row after validateDataset has run on its textarea
validatedRow(row) ==
    LET verdict == validateDataset(row.text)
    IN  [row EXCEPT !.msg = verdict.msg, !.color = verdict.color]

\* script.js 875: labelInput.value.trim() || `Dataset ${id}`
labelOfRow(row) == IF Trim(row.label) = <<>> THEN DefaultLabel(row.id) ELSE Trim(row.label)

\* script.js 862-880: the datasets the click handler collects of the rows
RECURSIVE clickDatasets(_)
clickDatasets(rows) ==
    IF rows = <<>> THEN <<>>
    ELSE LET parsed == parseAndValidateFieldValues(Head(rows).text)
         IN  IF validateDataset(Head(rows).text).valid /\ parsed # Null
             THEN <<[label |-> labelOfRow(Head(rows)), values |-> parsed.arr]>>
                  \o clickDatasets(Tail(rows))
             ELSE clickDatasets(Tail(rows))

\* script.js 859, 867-870: allValid after the loop over the rows, each of
\* which validateDataset has left without a message if it returned true
allRowsValid(rows) == \A i \in 1..Len(rows) : rows[i].msg = ""

\* the values of the checkboxes of the options grid, in the order of the page
PageOptions == <<"t-test">>

\* script.js 883-885: the values of the checked boxes
selectedOf(checked) == SelectSeq(PageOptions, LAMBDA o : o \in checked)

\* script.js 887-897 without the test of allValid
clickOutcomeAnyRows(rowsValid, clicked, options) ==
    IF clicked = <<>> THEN "invalid"
    ELSE IF options = <<>> THEN "no option"
    ELSE "run"

\* script.js 887-897: what the click handler does after collecting
clickOutcome(rowsValid, clicked, options) ==
    IF ~rowsValid \/ clicked = <<>> THEN "invalid"
    ELSE IF options = <<>> THEN "no option"
    ELSE "run"

MsgFixErrors == "Please fix the errors in the datasets to continue."
MsgNoOption == "Please select at least one analysis option."

\* script.js 863-865, 875: the values of a row that the click handler reads
rowValues(row) == [id |-> row.id, label |-> row.label, text |-> row.text]

\* the datasets of the form when the timer fires
timerDatasetsOfForm(timer, rows) == clickDatasets(rows)

\* script.js 902-972: the datasets the callback of setTimeout works on, the
\* const datasets of the click that set the timer
timerDatasets(timer, rows) == timer.datasets

\* the texts typed into a textarea: three values, and four pieces the first
\* of which is no number (a new row is empty)
FormTexts == {<<"1", ",", "2", ",", "3">>, <<"x", ",", "2", ",", "3", ",", "4">>}

\* the columns of an imported file: the header and the cells that are numbers
ImportColumns ==
    {[label |-> <<"H">>, values |-> Run(1, 3)], [label |-> <<"K">>, values |-> Run(1, 2)]}

\* the files chosen: a type, whether the parser reports errors or too little
\* data, and the columns
ImportFiles ==
    {[type |-> t, broken |-> b, columns |-> c] :
        t \in {"csv", "xlsx", "txt"}, b \in BOOLEAN,
        c \in UNION {[1..n -> ImportColumns] : n \in 0..MaxRows}}

\* script.js 672-675, 691-694: the columns of at least 3 numbers
importedDatasets(file) == SelectSeq(file.columns, LAMBDA ds : Len(ds.values) >= MinSamples)

\* the decimal digits of a natural number
RECURSIVE digitsOf(_)
digitsOf(n) == IF n < 10 THEN <<ToString(n)>> ELSE digitsOf(n \div 10) \o <<ToString(n % 10)>>

\* script.js 719: ds.values.join(", "), of natural numbers
RECURSIVE joinValues(_)
joinValues(values) ==
    IF values = <<>> THEN <<>>
    ELSE IF Len(values) = 1 THEN digitsOf(Head(values).n)
    ELSE digitsOf(Head(values).n) \o <<",", " ">> \o joinValues(Tail(values))

\* script.js 715-721: the row made for the i-th imported dataset
importedRow(ds, i) ==
    validatedRow([createDatasetRow(i) EXCEPT !.label = ds.label, !.text = joinValues(ds.values)])

\* script.js 712-730: the container and datasetCount after the import
importedForm(imported) ==
    IF imported = <<>>
    THEN [rows |-> <<withoutRemoveButton(createDatasetRow(1))>>, count |-> 1]
    ELSE [rows |-> [i \in 1..Len(imported) |-> importedRow(imported[i], i)],
          count |-> Len(imported)]

\* script.js 518-533, 975-979: the page has loaded with its static rows; a
\* page without rows gets row 1, without a remove button
FormInit ==
    /\ \E n \in 0..MaxRows :
          formRows = IF n = 0 THEN <<withoutRemoveButton(createDatasetRow(1))>>
                     ELSE [i \in 1..n |-> staticRow(i)]
    /\ datasetCount = 3
    /\ checkedOptions = {}
    /\ submitting = FALSE
    /\ timers = <<>>
    /\ openedPages = <<>>
    /\ filePreview = "hidden"
    /\ passedClicks = <<>>

InitForm == FormInit /\ RowIdle /\ RunIdle /\ DoubleIdle /\ TwoWayIdle /\ OneWayIdle

\* the variables of the callback of setTimeout, and those of other sections
callbackVars == <<datasets, selectedOptions, stage, means, populationSDs, sampleSDs,
                  noOfItems, analysisResults, payload, page, legacy>>
otherVars == <<rowVars, doubleVars, twoWayVars, oneWayVars>>
\* what only Run Analysis and its timer change
runningVars == <<submitting, timers, openedPages, passedClicks, errorDisplay>>

\* script.js 617-622: Add Dataset is clicked
AddDataset ==
    /\ Len(formRows) < MaxRows
    /\ datasetCount < MaxCount
    /\ datasetCount' = datasetCount + 1
    /\ formRows' = Append(formRows, createDatasetRow(datasetCount'))
    /\ UNCHANGED <<checkedOptions, filePreview, runningVars, callbackVars, otherVars>>

\* script.js 602-610, 625-638: the remove button of a row is clicked
RemoveDataset ==
    /\ \E i \in 1..Len(formRows) :
          /\ formRows[i].removable
          /\ formRows' = removeClicked([rows |-> formRows, count |-> datasetCount], i).rows
          /\ datasetCount' = removeClicked([rows |-> formRows, count |-> datasetCount], i).count
    /\ datasetCount' <= MaxCount
    /\ UNCHANGED <<checkedOptions, filePreview, runningVars, callbackVars, otherVars>>

\* script.js 611-613, 846-853: a text is typed into the textarea of a row
InputText ==
    /\ \E i \in 1..Len(formRows) : \E text \in FormTexts :
          /\ text # formRows[i].text
          /\ formRows' = [formRows EXCEPT ![i] = validatedRow([@ EXCEPT !.text = text])]
    /\ UNCHANGED <<datasetCount, checkedOptions, filePreview, runningVars, callbackVars,
                   otherVars>>

\* a box of the options grid is checked or unchecked
ToggleOption ==
    /\ \E i \in 1..Len(PageOptions) :
          checkedOptions' = IF PageOptions[i] \in checkedOptions
                            THEN checkedOptions \ {PageOptions[i]}
                            ELSE checkedOptions \cup {PageOptions[i]}
    /\ UNCHANGED <<formRows, datasetCount, filePreview, runningVars, callbackVars, otherVars>>

\* script.js 857-900: Run Analysis is clicked; a click that passes sets the
\* timer, whose callback holds the datasets and the options of the click.
\* passedClicks records what the click read of the form.
ClickRunAnalysis ==
    /\ formRows' = SeqMap(validatedRow, formRows)
    /\ \E outcome \in {clickOutcome(allRowsValid(formRows'), clickDatasets(formRows),
                                     selectedOf(checkedOptions))} :
          /\ outcome = "run" => Len(timers) + Len(openedPages) < MaxClicks
          /\ errorDisplay' = CASE outcome = "invalid" -> MsgFixErrors
                               [] outcome = "no option" -> MsgNoOption
                               [] OTHER -> ""
          /\ submitting' = (outcome = "run")
          /\ timers' = IF outcome = "run"
                       THEN Append(timers, [datasets |-> clickDatasets(formRows),
                                            options |-> selectedOf(checkedOptions)])
                       ELSE timers
          /\ passedClicks' = IF outcome = "run"
                             THEN Append(passedClicks,
                                         [rows |-> SeqMap(rowValues, formRows),
                                          options |-> selectedOf(checkedOptions)])
                             ELSE passedClicks
    /\ UNCHANGED <<datasetCount, checkedOptions, openedPages, filePreview, callbackVars,
                   otherVars>>

\* script.js 902-972: the oldest timer fires and opens its results page
TimerFires ==
    /\ timers # <<>>
    /\ datasets' = timerDatasets(Head(timers), formRows)
    /\ selectedOptions' = Head(timers).options
    /\ means' = SeqMap(meanOf, datasets')
    /\ populationSDs' = SeqMap(sdPopulation, datasets')
    /\ sampleSDs' = SeqMap(sdSample, datasets')
    /\ noOfItems' = SeqMap(lengthOf, datasets')
    /\ \E out \in {performAnalyses(SeqMap(valuesOf, datasets'), means', sampleSDs',
                                     populationSDs', noOfItems', selectedOptions', datasets',
                                     errorDisplay)} :
          /\ analysisResults' = out.results
          /\ errorDisplay' = out.error
    /\ payload' = [datasetCount |-> Len(datasets'),
                   datasets |-> SeqMap(payloadDataset, datasets'),
                   analyses |-> payloadAnalyses(selectedOptions', datasets', analysisResults')]
    /\ openedPages' = Append(openedPages, payload')
    /\ stage' = "opened"
    /\ submitting' = FALSE
    /\ timers' = Tail(timers)
    /\ UNCHANGED <<formRows, datasetCount, checkedOptions, filePreview, passedClicks, page,
                   legacy, otherVars>>

\* script.js 641-737: a file is chosen and read
ImportFile ==
    /\ \E file \in ImportFiles :
          IF file.type = "txt" \/ file.broken
          THEN UNCHANGED <<formRows, datasetCount, filePreview>>
          ELSE IF importedDatasets(file) = <<>>
          THEN /\ filePreview' = "no datasets"
               /\ UNCHANGED <<formRows, datasetCount>>
          ELSE /\ filePreview' = "imported"
               /\ formRows' = importedForm(importedDatasets(file)).rows
               /\ datasetCount' = importedForm(importedDatasets(file)).count
    /\ UNCHANGED <<checkedOptions, runningVars, callbackVars, otherVars>>

\* the rows of the form: added, removed, typed into and replaced by imports
RowsNext == AddDataset \/ RemoveDataset \/ ImportFile \/ InputText

SpecRows == InitForm /\ [][RowsNext]_vars

\* the form filled in and run, while rows are added and removed
FormNext == AddDataset \/ RemoveDataset \/ InputText \/ ToggleOption \/ ClickRunAnalysis \/ TimerFires

SpecForm == InitForm /\ [][FormNext]_vars

----------------------------------------------------------------------------
(* Claims about the failures of one run                                    *)

\* the timer of the run has fired: performAnalyses has returned and the
\* payload is with the results page
RunEnded == stage \in {"opened", "rendered"}

TTestFailed == HasOption(selectedOptions, "t-test") /\ Len(datasets) # 2
OneWayFailed == HasOption(selectedOptions, "anova-one-way") /\ Len(datasets) < 2
TwoWayFailed ==
    /\ HasOption(selectedOptions, "anova-two-way")
    /\ calculateTwoWayAnova(SeqMap(valuesOf, datasets), datasets).error # Undefined

\* the entry of the results object that the case of an option assigns
EntryOf(results, option) ==
    CASE option = "mean" -> results.mean
      [] option = "sample-std-dev" -> results.sampleSDs
      [] option = "population-std-dev" -> results.populationSDs
      [] option = "t-test" -> results.ttest
      [] option = "anova-one-way" -> results.anovaOneWay
      [] option = "anova-two-way" -> results.anovaTwoWay

HasEntry(results, option) == EntryOf(results, option) # Undefined

RecognisedOptions == OptionNames \ {"regression"}

\* C25: when the run has ended, the reason of every failed analysis is in
\* errorDisplay or in the analyses of the payload, and a failed t-test and a
\* failed two-way analysis of variance have their entry in the payload
C25_ReasonsKept ==
    RunEnded =>
        /\ TTestFailed =>
               /\ errorDisplay = "T-Test requires exactly 2 datasets."
                      \/ payload.analyses.tTest # Undefined
               /\ payload.analyses.tTest # Undefined
        /\ OneWayFailed =>
               \/ errorDisplay = "One-Way ANOVA requires at least 2 datasets."
               \/ payload.analyses.anovaOneWay # Undefined
        /\ TwoWayFailed =>
               /\ errorDisplay = errorTextTwoWay(calculateTwoWayAnova(SeqMap(valuesOf, datasets), datasets))
                      \/ payload.analyses.anovaTwoWay # Undefined
               /\ payload.analyses.anovaTwoWay # Undefined

\* C26: when the run has ended, the results object of performAnalyses has an
\* entry for exactly the recognised options that were selected, whichever of
\* them failed
C26_EveryOptionAttempted ==
    RunEnded =>
        \A option \in RecognisedOptions :
            HasOption(selectedOptions, option) <=> HasEntry(analysisResults, option)

\* a t-test refused for three datasets is followed by the means
C26_Witness ==
    /\ RunEnded
    /\ selectedOptions = <<"t-test", "mean">>
    /\ Len(datasets) = 3
    /\ analysisResults.ttest = Str("N/A (requires exactly 2 datasets)")
    /\ analysisResults.mean.items = <<Fixed(3, 2000), Fixed(3, 3000), Fixed(3, 4000)>>

----------------------------------------------------------------------------
(* Claims about the form                                                   *)

\* the datasets a click collects of the rows it read
DatasetsOfClick(click) == clickDatasets(click.rows)

\* the labels and values of the datasets of a results page
PageDatasets(p) == [i \in 1..Len(p.datasets) |-> [label |-> p.datasets[i].label, values |-> p.datasets[i].values]]

\* the payload the callback makes of datasets and options, errorDisplay
\* being empty since the click
PayloadOf(ds, options) ==
    [datasetCount |-> Len(ds), datasets |-> SeqMap(payloadDataset, ds),
     analyses |-> payloadAnalyses(options, ds,
                      performAnalyses(SeqMap(valuesOf, ds), SeqMap(meanOf, ds),
                                      SeqMap(sdSample, ds), SeqMap(sdPopulation, ds),
                                      SeqMap(lengthOf, ds), options, ds, "").results)]

\* the callback of a timer has run
CallbackRan == stage = "opened" /\ openedPages # <<>>

\* C28: every click that passed validation has its timer pending or its one
\* results page opened, in the order of the clicks, so that a timer that fires
\* opens the one page of its click; the datasets of each page and of each
\* pending callback are those of the rows as the click read them, and the
\* page opened last holds the statistics and analyses of those datasets,
\* whatever is typed, added, removed or clicked before the timer fires
C28_OnePagePerClick ==
    /\ Len(openedPages) + Len(timers) = Len(passedClicks)
    /\ \A i \in 1..Len(openedPages) :
           /\ i <= Len(passedClicks)
           /\ PageDatasets(openedPages[i]) = DatasetsOfClick(passedClicks[i])
    /\ \A j \in 1..Len(timers) :
           /\ Len(openedPages) + j <= Len(passedClicks)
           /\ timers[j].datasets = DatasetsOfClick(passedClicks[Len(openedPages) + j])
           /\ timers[j].options = passedClicks[Len(openedPages) + j].options
    /\ CallbackRan =>
           openedPages[Len(openedPages)] =
               PayloadOf(DatasetsOfClick(passedClicks[Len(openedPages)]),
                         passedClicks[Len(openedPages)].options)

\* two clicks passed before the first timer fired, the text of row 1 was
\* changed between them, and both pages are open with their own values
C28_Witness ==
    /\ Len(openedPages) = 2
    /\ timers = <<>>
    /\ passedClicks[1].rows[1].text = <<"1", ",", "2", ",", "3">>
    /\ passedClicks[2].rows[1].text = <<"x", ",", "2", ",", "3", ",", "4">>
    /\ formRows[1].text = <<"1", ",", "2", ",", "3">>
    /\ openedPages[1].datasets[1].mean = Fixed(3, 2000)
    /\ openedPages[2].datasets[1].mean = Fixed(3, 3000)

\* the rows a click read all pass validateDataset and an option was checked
GatePassed(click) ==
    /\ click.options # <<>>
    /\ click.rows # <<>>
    /\ \A i \in 1..Len(click.rows) : validateDataset(click.rows[i].text).valid

\* one dataset of each row, each of at least 3 values none of which is NaN
WholeDatasets(ds, click) ==
    /\ Len(ds) = Len(click.rows)
    /\ \A i \in 1..Len(ds) :
           /\ Len(ds[i].values) >= MinSamples
           /\ \A j \in 1..Len(ds[i].values) : ~isNaN(ds[i].values[j])

\* C29: a timer is set only by a click all of whose rows passed validation
\* with an option checked, and the datasets performAnalyses is called with are
\* one of each row of that click, each of at least 3 numbers and no NaN
C29_ValidationGate ==
    /\ \A i \in 1..Len(passedClicks) : GatePassed(passedClicks[i])
    /\ \A j \in 1..Len(timers) :
           Len(openedPages) + j <= Len(passedClicks)
               => WholeDatasets(timers[j].datasets, passedClicks[Len(openedPages) + j])
    /\ (CallbackRan /\ Len(openedPages) <= Len(passedClicks)) =>
           /\ WholeDatasets(datasets, passedClicks[Len(openedPages)])
           /\ selectedOptions = passedClicks[Len(openedPages)].options

\* performAnalyses has been called with two datasets, the second of a text
\* one of whose pieces is no number
C29_Witness ==
    /\ CallbackRan
    /\ Len(datasets) = 2
    /\ passedClicks[Len(openedPages)].rows[2].text = <<"x", ",", "2", ",", "3", ",", "4">>
    /\ datasets[2].values = Run(2, 3)
    /\ selectedOptions = <<"t-test">>

\* C30: the container holds at least one row
C30_NeverEmpty == Len(formRows) >= 1

\* the only row was removed and the container got a new row, which has no
\* remove button
C30_Witness ==
    /\ Len(formRows) = 1
    /\ datasetCount = 4
    /\ formRows[1].id = 4
    /\ ~formRows[1].removable
    /\ filePreview = "imported"

====
